---- MODULE Spec2Model ----
(***************************************************************************)
(* A model of simple-redis: the RESP codec (src/resp), the command layer   *)
(* (src/cmd) and the backend store the commands execute against.           *)
(*                                                                         *)
(* Bytes are the integers 0..255 and a buffer (BytesMut, Vec<u8>, String)  *)
(* is a sequence of bytes.  A frame is a record [type, val]; a decode      *)
(* call returns [res, frame, buf] where res is "Ok" or the RespError       *)
(* variant and buf is the caller's buffer as the call leaves it.           *)
(***************************************************************************)
EXTENDS Integers, Sequences, FiniteSets, TLC

(***************************************************************************)
(* Byte values of the literals the codec uses.                             *)
(***************************************************************************)
CR == 13
LF == 10
PLUS == 43
MINUS == 45
COLON == 58
DOLLAR == 36
STAR == 42
UNDERSCORE == 95
HASH == 35
COMMA == 44
PERCENT == 37
TILDE == 126
DOT == 46
ZERO == 48
CRLF == <<CR, LF>>
CRLF_LEN == 2

\* b"t", b"f", b"e" and the letters of the command names.
Ch_a == 97
Ch_e == 101
Ch_f == 102
Ch_g == 103
Ch_h == 104
Ch_l == 108
Ch_s == 115
Ch_t == 116
Ch_E == 69
\* A byte sequence that is not valid UTF-8, and U+FFFD as UTF-8.
BadBytes == <<255>>
REPLACEMENT == <<239, 191, 189>>

(***************************************************************************)
(* Helpers on byte sequences.                                              *)
(***************************************************************************)
Drop(s, n) == IF n >= Len(s) THEN <<>> ELSE SubSeq(s, n + 1, Len(s))
Take(s, n) == IF n >= Len(s) THEN s ELSE SubSeq(s, 1, n)
StartsWith(s, p) == Len(s) >= Len(p) /\ SubSeq(s, 1, Len(p)) = p

\* Ord for byte strings (the order of BTreeMap<String, _> and of str::cmp).
RECURSIVE BytesLess(_, _)
BytesLess(a, b) ==
    IF b = <<>> THEN FALSE
    ELSE IF a = <<>> THEN TRUE
    ELSE IF Head(a) # Head(b) THEN Head(a) < Head(b)
    ELSE BytesLess(Tail(a), Tail(b))

MinKey(S) == CHOOSE k \in S : \A j \in S : j = k \/ BytesLess(k, j)

\* format!("{}", n) for an unsigned integer.
RECURSIVE FmtNat(_)
FmtNat(n) == IF n < 10 THEN <<ZERO + n>> ELSE FmtNat(n \div 10) \o <<ZERO + (n % 10)>>

IsDigit(b) == b >= ZERO /\ b <= ZERO + 9
AllDigits(s) == \A i \in 1..Len(s) : IsDigit(s[i])

RECURSIVE DigitsVal(_)
DigitsVal(s) == IF s = <<>> THEN 0 ELSE DigitsVal(Take(s, Len(s) - 1)) * 10 + (s[Len(s)] - ZERO)

\* The length of the UTF-8 character s starts with, 0 when it starts with none.
IsCont(b) == b >= 128 /\ b <= 191
CharLen(s) ==
    CASE s = <<>> -> 0
      [] s[1] < 128 -> 1
      [] s[1] >= 194 /\ s[1] <= 223 /\ Len(s) >= 2 /\ IsCont(s[2]) -> 2
      [] /\ s[1] >= 224 /\ s[1] <= 239 /\ Len(s) >= 3 /\ IsCont(s[2]) /\ IsCont(s[3])
         /\ (s[1] = 224 => s[2] >= 160) /\ (s[1] = 237 => s[2] <= 159) -> 3
      [] /\ s[1] >= 240 /\ s[1] <= 244 /\ Len(s) >= 4
         /\ IsCont(s[2]) /\ IsCont(s[3]) /\ IsCont(s[4])
         /\ (s[1] = 240 => s[2] >= 144) /\ (s[1] = 244 => s[2] <= 143) -> 4
      [] OTHER -> 0

\* String::from_utf8(bytes).is_ok()
RECURSIVE IsUtf8(_)
IsUtf8(s) == s = <<>> \/ (CharLen(s) > 0 /\ IsUtf8(Drop(s, CharLen(s))))

\* String::from_utf8_lossy: well-formed characters are kept and a byte that
\* starts none becomes U+FFFD.
RECURSIVE from_utf8_lossy(_)
from_utf8_lossy(s) ==
    IF s = <<>> THEN <<>>
    ELSE IF CharLen(s) > 0 THEN Take(s, CharLen(s)) \o from_utf8_lossy(Drop(s, CharLen(s)))
    ELSE REPLACEMENT \o from_utf8_lossy(Tail(s))

\* str::parse::<usize>: an optional '+', then at least one digit.
parse_usize(s) ==
    LET d == IF s # <<>> /\ Head(s) = PLUS THEN Tail(s) ELSE s
    IN IF d # <<>> /\ AllDigits(d) THEN [ok |-> TRUE, val |-> DigitsVal(d)]
       ELSE [ok |-> FALSE, val |-> 0]

\* str::parse::<i64>: an optional '+' or '-', then at least one digit.
parse_i64(s) ==
    LET signed == s # <<>> /\ Head(s) \in {PLUS, MINUS}
        d == IF signed THEN Tail(s) ELSE s
    IN IF d # <<>> /\ AllDigits(d)
       THEN [ok |-> TRUE, val |-> IF signed /\ Head(s) = MINUS THEN 0 - DigitsVal(d) ELSE DigitsVal(d)]
       ELSE [ok |-> FALSE, val |-> 0]

(***************************************************************************)
(* f64.  A finite double is modelled as the decimal it was written as:     *)
(* [kind |-> "fin", neg, mant, exp] stands for (+/-) mant * 10^exp, with   *)
(* mant not divisible by 10 (and exp = 0 when mant = 0).  Shortest         *)
(* round-trip printing makes this exact for the short decimals used here.  *)
(***************************************************************************)
RECURSIVE NormDec(_, _)
NormDec(m, e) ==
    IF m = 0 THEN <<0, 0>>
    ELSE IF m % 10 = 0 THEN NormDec(m \div 10, e + 1)
    ELSE <<m, e>>

Fin(neg, m, e) == [kind |-> "fin", neg |-> neg, mant |-> NormDec(m, e)[1], exp |-> NormDec(m, e)[2]]
Inf(neg) == [kind |-> "inf", neg |-> neg, mant |-> 0, exp |-> 0]
NaN == [kind |-> "nan", neg |-> FALSE, mant |-> 0, exp |-> 0]

RECURSIVE Zeros(_)
Zeros(n) == IF n <= 0 THEN <<>> ELSE <<ZERO>> \o Zeros(n - 1)

ToLowerByte(b) == IF b >= 65 /\ b <= 90 THEN b + 32 ELSE b
to_ascii_lowercase(s) == [i \in 1..Len(s) |-> ToLowerByte(s[i])]

IndexOf(s, S) == IF \E i \in 1..Len(s) : s[i] \in S
                 THEN CHOOSE i \in 1..Len(s) : s[i] \in S /\ \A j \in 1..(i - 1) : s[j] \notin S
                 ELSE 0

\* The decimal exponent of the leading digit of a finite double.
LeadExp(d) == d.exp + Len(FmtNat(d.mant)) - 1

\* self.abs() > 1e+8 || self.abs() < 1e-8
UsesExpForm(d) ==
    CASE d.kind = "nan" -> FALSE
      [] d.kind = "inf" -> TRUE
      [] OTHER -> \/ d.mant = 0
                  \/ LeadExp(d) > 8
                  \/ (LeadExp(d) = 8 /\ d.mant # 1)
                  \/ LeadExp(d) < 0 - 8

\* impl Display for f64 without the sign.
FmtAbsDecimal(d) ==
    LET D == FmtNat(d.mant)
        n == Len(D)
        p == n + d.exp
    IN IF d.exp >= 0 THEN D \o Zeros(d.exp)
       ELSE IF p > 0 THEN SubSeq(D, 1, p) \o <<DOT>> \o SubSeq(D, p + 1, n)
       ELSE <<ZERO, DOT>> \o Zeros(0 - p) \o D

\* impl LowerExp for f64 without the sign.
FmtAbsExp(d) ==
    LET D == FmtNat(d.mant)
        n == Len(D)
        E == IF d.mant = 0 THEN 0 ELSE LeadExp(d)
    IN <<D[1]>> \o (IF n > 1 THEN <<DOT>> \o SubSeq(D, 2, n) ELSE <<>>)
       \o <<Ch_e>> \o (IF E < 0 THEN <<MINUS>> \o FmtNat(0 - E) ELSE FmtNat(E))

FmtSpecial(d) == IF d.kind = "inf" THEN <<105, 110, 102>> ELSE <<78, 97, 78>>

\* str::parse::<f64>: [sign] (inf | infinity | nan | digits [. digits] [e [sign] digits]).
parse_f64(s) ==
    LET signed == s # <<>> /\ Head(s) \in {PLUS, MINUS}
        neg == signed /\ Head(s) = MINUS
        body == IF signed THEN Tail(s) ELSE s
        low == to_ascii_lowercase(body)
        ePos == IndexOf(body, {Ch_e, Ch_E})
        mantS == IF ePos = 0 THEN body ELSE SubSeq(body, 1, ePos - 1)
        expS == IF ePos = 0 THEN <<ZERO>> ELSE Drop(body, ePos)
        dPos == IndexOf(mantS, {DOT})
        intS == IF dPos = 0 THEN mantS ELSE SubSeq(mantS, 1, dPos - 1)
        fracS == IF dPos = 0 THEN <<>> ELSE Drop(mantS, dPos)
        expV == parse_i64(expS)
    IN IF low \in {<<105, 110, 102>>, <<105, 110, 102, 105, 110, 105, 116, 121>>}
       THEN [ok |-> TRUE, val |-> Inf(neg)]
       ELSE IF low = <<110, 97, 110>> THEN [ok |-> TRUE, val |-> NaN]
       ELSE IF /\ AllDigits(intS) /\ AllDigits(fracS) /\ Len(intS) + Len(fracS) > 0
               /\ expV.ok
       THEN [ok |-> TRUE, val |-> Fin(neg, DigitsVal(intS \o fracS), expV.val - Len(fracS))]
       ELSE [ok |-> FALSE, val |-> NaN]

(***************************************************************************)
(* Frames (enum RespFrame) and their encoders.  Each variant is a record    *)
(* of its tag and its payload; variants with different payload types use   *)
(* different field names.                                                  *)
(***************************************************************************)
NoFrame == [type |-> "None"]
SimpleString(s) == [type |-> "SimpleString", str |-> s]
SimpleError(s) == [type |-> "Error", str |-> s]
Integer(i) == [type |-> "Integer", int |-> i]
BulkString(s) == [type |-> "BulkString", str |-> s]
RespNullBulkString == [type |-> "NullBulkString"]
RespArray(fs) == [type |-> "Array", items |-> fs]
RespNullArray == [type |-> "NullArray"]
RespNull == [type |-> "Null"]
Boolean(b) == [type |-> "Boolean", bool |-> b]
Double(d) == [type |-> "Double", dbl |-> d]
RespMap(m) == [type |-> "Map", map |-> m]
RespSet(fs) == [type |-> "Set", items |-> fs]

\* BTreeMap::new and BTreeMap::insert; a map is a function on its key set.
EmptyMap == [k \in {} |-> NoFrame]
MapInsert(m, k, v) == [x \in (DOMAIN m) \cup {k} |-> IF x = k THEN v ELSE m[x]]

SimpleString_encode(s) == <<PLUS>> \o s \o CRLF
SimpleError_encode(s) == <<MINUS>> \o s \o CRLF
i64_encode(i) == <<COLON>> \o (IF i < 0 THEN <<MINUS>> \o FmtNat(0 - i) ELSE <<PLUS>> \o FmtNat(i)) \o CRLF
BulkString_encode(s) == <<DOLLAR>> \o FmtNat(Len(s)) \o CRLF \o s \o CRLF
RespNullBulkString_encode == <<DOLLAR, MINUS, ZERO + 1, CR, LF>>
RespNullArray_encode == <<STAR, MINUS, ZERO + 1, CR, LF>>
RespNull_encode == <<UNDERSCORE, CR, LF>>
bool_encode(b) == <<HASH, IF b THEN Ch_t ELSE Ch_f>> \o CRLF
f64_encode(d) ==
    IF UsesExpForm(d)
    THEN <<COMMA>> \o (IF d.neg THEN <<MINUS>> ELSE <<PLUS>>)
         \o (IF d.kind = "fin" THEN FmtAbsExp(d) ELSE FmtSpecial(d)) \o CRLF
    ELSE <<COMMA>> \o (IF d.kind = "fin" /\ d.neg THEN <<MINUS>> ELSE <<PLUS>>)
         \o (IF d.kind = "fin" THEN FmtAbsDecimal(d) ELSE FmtSpecial(d)) \o CRLF

RECURSIVE RespFrame_encode(_), EncodeSeq(_), EncodeEntries(_)
EncodeSeq(fs) == IF fs = <<>> THEN <<>> ELSE RespFrame_encode(Head(fs)) \o EncodeSeq(Tail(fs))

\* The entries written from the greatest key down.
RECURSIVE EncodeEntries_Descending(_)
EncodeEntries_Descending(m) ==
    IF DOMAIN m = {} THEN <<>>
    ELSE LET k == MinKey(DOMAIN m)
         IN EncodeEntries_Descending([x \in (DOMAIN m) \ {k} |-> m[x]])
            \o SimpleString_encode(k) \o RespFrame_encode(m[k])

\* for (key, value) in self.0: a BTreeMap iterates in ascending key order.
EncodeEntries(m) ==
    IF DOMAIN m = {} THEN <<>>
    ELSE LET k == MinKey(DOMAIN m)
         IN SimpleString_encode(k) \o RespFrame_encode(m[k])
            \o EncodeEntries([x \in (DOMAIN m) \ {k} |-> m[x]])

RespArray_encode(fs) == <<STAR>> \o FmtNat(Len(fs)) \o CRLF \o EncodeSeq(fs)
RespSet_encode(fs) == <<TILDE>> \o FmtNat(Len(fs)) \o CRLF \o EncodeSeq(fs)
RespMap_encode(m) == <<PERCENT>> \o FmtNat(Cardinality(DOMAIN m)) \o CRLF \o EncodeEntries(m)

RespFrame_encode(f) ==
    CASE f.type = "SimpleString" -> SimpleString_encode(f.str)
      [] f.type = "Error" -> SimpleError_encode(f.str)
      [] f.type = "Integer" -> i64_encode(f.int)
      [] f.type = "BulkString" -> BulkString_encode(f.str)
      [] f.type = "NullBulkString" -> RespNullBulkString_encode
      [] f.type = "Array" -> RespArray_encode(f.items)
      [] f.type = "NullArray" -> RespNullArray_encode
      [] f.type = "Null" -> RespNull_encode
      [] f.type = "Boolean" -> bool_encode(f.bool)
      [] f.type = "Double" -> f64_encode(f.dbl)
      [] f.type = "Map" -> RespMap_encode(f.map)
      [] f.type = "Set" -> RespSet_encode(f.items)

(***************************************************************************)
(* Decoders.  Every decoder takes the buffer and returns [res, frame, buf]: *)
(* buf is the buffer after the call (split_to / advance remove a prefix).   *)
(***************************************************************************)
Ok(f, b) == [res |-> "Ok", frame |-> f, buf |-> b]
Err(e, b) == [res |-> e, frame |-> NoFrame, buf |-> b]

\* The index of the first CR LF pair, 0-based, as the loop of
\* extract_simpe_frame_data finds it; 0 when there is none.
FindCRLF(buf) ==
    LET hits == {i \in 0..(Len(buf) - 2) : buf[i + 1] = CR /\ buf[i + 2] = LF}
    IN IF hits = {} THEN 0 ELSE CHOOSE i \in hits : \A j \in hits : i <= j

\* [res, end]: the position of the terminating CR LF of a line frame.
extract_simpe_frame_data(buf, prefix) ==
    IF Len(buf) < 3 THEN [res |-> "NotComplete", end |-> 0]
    ELSE IF ~StartsWith(buf, prefix) THEN [res |-> "InvalidFrameType", end |-> 0]
    ELSE IF FindCRLF(buf) = 0 THEN [res |-> "NotComplete", end |-> 0]
    ELSE [res |-> "Ok", end |-> FindCRLF(buf)]

\* extract_fixed_data without its length check.
extract_fixed_data_NoLenCheck(buf, expect) ==
    IF Take(buf, Len(expect)) # expect THEN [res |-> "InvalidFrame", buf |-> buf]
    ELSE [res |-> "Ok", buf |-> Drop(buf, Len(expect))]

\* [res, buf]: consumes expect when the buffer starts with it.
extract_fixed_data(buf, expect) ==
    IF Len(buf) < Len(expect) THEN [res |-> "NotComplete", buf |-> buf]
    ELSE IF SubSeq(buf, 1, Len(expect)) # expect THEN [res |-> "InvalidFrame", buf |-> buf]
    ELSE [res |-> "Ok", buf |-> Drop(buf, Len(expect))]

\* [res, end, len]
parse_length(buf, prefix) ==
    LET e == extract_simpe_frame_data(buf, prefix)
        n == parse_usize(SubSeq(buf, Len(prefix) + 1, e.end))
    IN IF e.res # "Ok" THEN [res |-> e.res, end |-> 0, len |-> 0]
       ELSE IF ~n.ok THEN [res |-> "ParseIntError", end |-> 0, len |-> 0]
       ELSE [res |-> "Ok", end |-> e.end, len |-> n.val]

SimpleString_decode(buf) ==
    LET e == extract_simpe_frame_data(buf, <<PLUS>>)
    IN IF e.res # "Ok" THEN Err(e.res, buf)
       ELSE Ok(SimpleString(from_utf8_lossy(SubSeq(buf, 2, e.end))), Drop(buf, e.end + 2))

SimpleError_decode(buf) ==
    LET e == extract_simpe_frame_data(buf, <<MINUS>>)
    IN IF e.res # "Ok" THEN Err(e.res, buf)
       ELSE Ok(SimpleError(from_utf8_lossy(SubSeq(buf, 2, e.end))), Drop(buf, e.end + 2))

RespNull_decode(buf) ==
    LET r == extract_fixed_data(buf, RespNull_encode)
    IN IF r.res = "Ok" THEN Ok(RespNull, r.buf) ELSE Err(r.res, r.buf)

RespNullArray_decode(buf) ==
    LET r == extract_fixed_data(buf, RespNullArray_encode)
    IN IF r.res = "Ok" THEN Ok(RespNullArray, r.buf) ELSE Err(r.res, r.buf)

RespNullBulkString_decode(buf) ==
    LET r == extract_fixed_data(buf, RespNullBulkString_encode)
    IN IF r.res = "Ok" THEN Ok(RespNullBulkString, r.buf) ELSE Err(r.res, r.buf)

\* The line is split off the buffer before it is parsed.
i64_decode(buf) ==
    LET e == extract_simpe_frame_data(buf, <<COLON>>)
        v == parse_i64(from_utf8_lossy(SubSeq(buf, 2, e.end)))
    IN IF e.res # "Ok" THEN Err(e.res, buf)
       ELSE IF ~v.ok THEN Err("ParseIntError", Drop(buf, e.end + 2))
       ELSE Ok(Integer(v.val), Drop(buf, e.end + 2))

f64_decode(buf) ==
    LET e == extract_simpe_frame_data(buf, <<COMMA>>)
        v == parse_f64(from_utf8_lossy(SubSeq(buf, 2, e.end)))
    IN IF e.res # "Ok" THEN Err(e.res, buf)
       ELSE IF ~v.ok THEN Err("ParseFloatError", Drop(buf, e.end + 2))
       ELSE Ok(Double(v.val), Drop(buf, e.end + 2))

bool_decode(buf) ==
    LET t == extract_fixed_data(buf, bool_encode(TRUE))
        f == extract_fixed_data(buf, bool_encode(FALSE))
    IN IF t.res = "Ok" THEN Ok(Boolean(TRUE), t.buf)
       ELSE IF f.res = "Ok" THEN Ok(Boolean(FALSE), f.buf)
       ELSE Err(f.res, f.buf)

\* BulkString::decode splitting off the payload without its CR LF.
BulkString_decode_KeepsCRLF(buf) ==
    LET p == parse_length(buf, <<DOLLAR>>)
        remained == Drop(buf, p.end + CRLF_LEN)
    IN IF p.res # "Ok" THEN Err(p.res, buf)
       ELSE IF Len(remained) < p.len + CRLF_LEN THEN Err("NotComplete", buf)
       ELSE Ok(BulkString(Take(remained, p.len)), Drop(remained, p.len))

\* BulkString::decode taking the payload up to the first CR LF after the
\* length line instead of the length's count of bytes.
BulkString_decode_ToDelimiter(buf) ==
    LET p == parse_length(buf, <<DOLLAR>>)
        remained == Drop(buf, p.end + CRLF_LEN)
        hits == {i \in 0..(Len(remained) - 2) : remained[i + 1] = CR /\ remained[i + 2] = LF}
        stop == CHOOSE i \in hits : \A j \in hits : i <= j
    IN IF p.res # "Ok" THEN Err(p.res, buf)
       ELSE IF Len(remained) < p.len + CRLF_LEN \/ hits = {} THEN Err("NotComplete", buf)
       ELSE Ok(BulkString(Take(remained, stop)), Drop(remained, stop + CRLF_LEN))

BulkString_decode(buf) ==
    LET p == parse_length(buf, <<DOLLAR>>)
        remained == Drop(buf, p.end + CRLF_LEN)
    IN IF p.res # "Ok" THEN Err(p.res, buf)
       ELSE IF Len(remained) < p.len + CRLF_LEN THEN Err("NotComplete", buf)
       ELSE Ok(BulkString(Take(remained, p.len)), Drop(remained, p.len + CRLF_LEN))

RECURSIVE RespFrame_decode(_), DecodeFrames(_, _, _), DecodeEntries(_, _, _)

\* for _ in 0..len { frames.push(RespFrame::decode(&mut newbuf).map_err(|_| NotComplete)?) }
\* [res, frames, buf] with buf the clone newbuf after the loop.
DecodeFrames(newbuf, len, frames) ==
    IF len = 0 THEN [res |-> "Ok", frames |-> frames, buf |-> newbuf]
    ELSE LET Push(r) ==
                 IF r.res # "Ok" THEN [res |-> "NotComplete", frames |-> frames, buf |-> r.buf]
                 ELSE DecodeFrames(r.buf, len - 1, Append(frames, r.frame))
         IN Push(RespFrame_decode(newbuf))

\* The loop of RespMap::decode: a SimpleString key, then any frame.
DecodeEntries(newbuf, len, m) ==
    IF len = 0 THEN [res |-> "Ok", frames |-> m, buf |-> newbuf]
    ELSE LET Insert(k, v) ==
                 IF v.res # "Ok" THEN [res |-> "NotComplete", frames |-> m, buf |-> v.buf]
                 ELSE DecodeEntries(v.buf, len - 1, MapInsert(m, k.frame.str, v.frame))
             Value(k) ==
                 IF k.res # "Ok" THEN [res |-> "NotComplete", frames |-> m, buf |-> k.buf]
                 ELSE Insert(k, RespFrame_decode(k.buf))
         IN Value(SimpleString_decode(newbuf))

\* RespArray::decode decoding its elements from the buffer itself.
RespArray_decode_InPlace(buf) ==
    LET Collect(r) ==
            IF r.res # "Ok" THEN Err(r.res, r.buf)
            ELSE Ok(RespArray(r.frames), r.buf)
        Elements(p) ==
            IF p.res # "Ok" THEN Err(p.res, buf)
            ELSE Collect(DecodeFrames(Drop(buf, p.end + CRLF_LEN), p.len, <<>>))
    IN Elements(parse_length(buf, <<STAR>>))

\* The elements are decoded from a clone; the buffer itself advances only
\* once every element is there.
RespArray_decode(buf) ==
    LET Collect(r) ==
            IF r.res # "Ok" THEN Err(r.res, buf)
            ELSE Ok(RespArray(r.frames), Drop(buf, Len(buf) - Len(r.buf)))
        Elements(p) ==
            IF p.res # "Ok" THEN Err(p.res, buf)
            ELSE Collect(DecodeFrames(Drop(buf, p.end + CRLF_LEN), p.len, <<>>))
    IN Elements(parse_length(buf, <<STAR>>))

RespSet_decode(buf) ==
    LET Collect(r) ==
            IF r.res # "Ok" THEN Err(r.res, buf)
            ELSE Ok(RespSet(r.frames), Drop(buf, Len(buf) - Len(r.buf)))
        Elements(p) ==
            IF p.res # "Ok" THEN Err(p.res, buf)
            ELSE Collect(DecodeFrames(Drop(buf, p.end + CRLF_LEN), p.len, <<>>))
    IN Elements(parse_length(buf, <<TILDE>>))

RespMap_decode(buf) ==
    LET Collect(r) ==
            IF r.res # "Ok" THEN Err(r.res, buf)
            ELSE Ok(RespMap(r.frames), Drop(buf, Len(buf) - Len(r.buf)))
        Entries(p) ==
            IF p.res # "Ok" THEN Err(p.res, buf)
            ELSE Collect(DecodeEntries(Drop(buf, p.end + CRLF_LEN), p.len, EmptyMap))
    IN Entries(parse_length(buf, <<PERCENT>>))

\* The '$' and '*' arms try the null literal first and fall back to the
\* length-prefixed decoder unless the literal reported NotComplete.
DecodeBulkArm(buf) ==
    LET n == RespNullBulkString_decode(buf)
    IN IF n.res \in {"Ok", "NotComplete"} THEN n ELSE BulkString_decode(buf)

DecodeArrayArm(buf) ==
    LET n == RespNullArray_decode(buf)
    IN IF n.res \in {"Ok", "NotComplete"} THEN n ELSE RespArray_decode(buf)

RespFrame_decode(buf) ==
    IF buf = <<>> THEN Err("NotComplete", buf)
    ELSE CASE Head(buf) = PLUS -> SimpleString_decode(buf)
           [] Head(buf) = MINUS -> SimpleError_decode(buf)
           [] Head(buf) = COLON -> i64_decode(buf)
           [] Head(buf) = DOLLAR -> DecodeBulkArm(buf)
           [] Head(buf) = STAR -> DecodeArrayArm(buf)
           [] Head(buf) = UNDERSCORE -> RespNull_decode(buf)
           [] Head(buf) = HASH -> bool_decode(buf)
           [] Head(buf) = COMMA -> f64_decode(buf)
           [] Head(buf) = PERCENT -> RespMap_decode(buf)
           [] Head(buf) = TILDE -> RespSet_decode(buf)
           [] OTHER -> Err("InvalidFrameType", buf)

(***************************************************************************)
(* The command layer (src/cmd).  A command is a record of its variant and  *)
(* its fields; a conversion returns [ok, command] or [ok, error].          *)
(***************************************************************************)
Name_get == <<Ch_g, Ch_e, Ch_t>>
Name_set == <<Ch_s, Ch_e, Ch_t>>
Name_hget == <<Ch_h, Ch_g, Ch_e, Ch_t>>
Name_hset == <<Ch_h, Ch_s, Ch_e, Ch_t>>
Name_hgetall == <<Ch_h, Ch_g, Ch_e, Ch_t, Ch_a, Ch_l, Ch_l>>

RESP_OK == SimpleString(<<79, 75>>)

Get(k) == [cmd |-> "Get", key |-> k]
Set(k, v) == [cmd |-> "Set", key |-> k, value |-> v]
HGet(k, f) == [cmd |-> "HGet", key |-> k, field |-> f]
HSet(k, f, v) == [cmd |-> "HSet", key |-> k, field |-> f, value |-> v]
HGetAll(k, s) == [cmd |-> "HGetAll", key |-> k, sort |-> s]
Unrecognized == [cmd |-> "Unrecognized"]

CmdOk(c) == [ok |-> TRUE, command |-> c]
CmdErr(e) == [ok |-> FALSE, error |-> e]

IsBulk(f) == f.type = "BulkString"

\* The first error of validate_command, or "Ok".  value is the sequence of
\* the array's frames; names are checked against the leading elements.
RECURSIVE CheckNames(_, _, _)
CheckNames(value, names, i) ==
    IF i > Len(names) THEN "Ok"
    ELSE IF ~IsBulk(value[i]) THEN "InvalidArgument"
    ELSE IF to_ascii_lowercase(value[i].str) # names[i] THEN "InvalidCommand"
    ELSE CheckNames(value, names, i + 1)

validate_command(value, names, n_args) ==
    IF Len(value) # n_args + 1 THEN "InvalidArgument"
    ELSE CheckNames(value, names, 1)

\* value.into_iter().skip(start).collect()
extract_args(value, start) == Drop(value, start)

\* Get::try_from taking the key with String::from_utf8_lossy.
Get_try_from_Lossy(value) ==
    LET v == validate_command(value, <<Name_get>>, 1)
        args == extract_args(value, 1)
    IN IF v # "Ok" THEN CmdErr(v)
       ELSE IF ~IsBulk(args[1]) THEN CmdErr("InvalidArgument")
       ELSE CmdOk(Get(from_utf8_lossy(args[1].str)))

Get_try_from(value) ==
    LET v == validate_command(value, <<Name_get>>, 1)
        args == extract_args(value, 1)
    IN IF v # "Ok" THEN CmdErr(v)
       ELSE IF ~IsBulk(args[1]) THEN CmdErr("InvalidArgument")
       ELSE IF ~IsUtf8(args[1].str) THEN CmdErr("Utf8Error")
       ELSE CmdOk(Get(args[1].str))

Set_try_from(value) ==
    LET v == validate_command(value, <<Name_set>>, 2)
        args == extract_args(value, 1)
    IN IF v # "Ok" THEN CmdErr(v)
       ELSE IF ~IsBulk(args[1]) THEN CmdErr("InvalidArgument")
       ELSE IF ~IsUtf8(args[1].str) THEN CmdErr("Utf8Error")
       ELSE CmdOk(Set(args[1].str, args[2]))

HGet_try_from(value) ==
    LET v == validate_command(value, <<Name_hget>>, 2)
        args == extract_args(value, 1)
    IN IF v # "Ok" THEN CmdErr(v)
       ELSE IF ~(IsBulk(args[1]) /\ IsBulk(args[2])) THEN CmdErr("InvalidArgument")
       ELSE IF ~IsUtf8(args[1].str) \/ ~IsUtf8(args[2].str) THEN CmdErr("Utf8Error")
       ELSE CmdOk(HGet(args[1].str, args[2].str))

HSet_try_from(value) ==
    LET v == validate_command(value, <<Name_hset>>, 3)
        args == extract_args(value, 1)
    IN IF v # "Ok" THEN CmdErr(v)
       ELSE IF ~(IsBulk(args[1]) /\ IsBulk(args[2])) THEN CmdErr("InvalidArgument")
       ELSE IF ~IsUtf8(args[1].str) \/ ~IsUtf8(args[2].str) THEN CmdErr("Utf8Error")
       ELSE CmdOk(HSet(args[1].str, args[2].str, args[3]))

HGetAll_try_from(value) ==
    LET v == validate_command(value, <<Name_hgetall>>, 1)
        args == extract_args(value, 1)
    IN IF v # "Ok" THEN CmdErr(v)
       ELSE IF ~IsBulk(args[1]) THEN CmdErr("InvalidArgument")
       ELSE IF ~IsUtf8(args[1].str) THEN CmdErr("Utf8Error")
       ELSE CmdOk(HGetAll(args[1].str, FALSE))

\* Command::try_from refusing the names it does not know.
Command_try_from_array_Strict(value) ==
    IF value = <<>> \/ ~IsBulk(value[1]) THEN CmdErr("InvalidCommand")
    ELSE CASE value[1].str = Name_get -> Get_try_from(value)
           [] value[1].str = Name_set -> Set_try_from(value)
           [] value[1].str = Name_hget -> HGet_try_from(value)
           [] value[1].str = Name_hset -> HSet_try_from(value)
           [] value[1].str = Name_hgetall -> HGetAll_try_from(value)
           [] OTHER -> CmdErr("InvalidCommand")

\* impl TryFrom<RespArray> for Command: the name is matched byte for byte.
Command_try_from_array(value) ==
    IF value = <<>> \/ ~IsBulk(value[1]) THEN CmdErr("InvalidCommand")
    ELSE CASE value[1].str = Name_get -> Get_try_from(value)
           [] value[1].str = Name_set -> Set_try_from(value)
           [] value[1].str = Name_hget -> HGet_try_from(value)
           [] value[1].str = Name_hset -> HSet_try_from(value)
           [] value[1].str = Name_hgetall -> HGetAll_try_from(value)
           [] OTHER -> CmdOk(Unrecognized)

\* impl TryFrom<RespFrame> for Command
Command_try_from(frame) ==
    IF frame.type = "Array" THEN Command_try_from_array(frame.items)
    ELSE CmdErr("InvalidCommand")

(***************************************************************************)
(* The codec driven on one buffer, the way the tests and the connection    *)
(* loop drive it: bytes are appended to a BytesMut and RespFrame::decode   *)
(* is called until it reports NotComplete.                                 *)
(***************************************************************************)
VARIABLES
    buf,        \* the BytesMut the decoder works on
    chunks,     \* the chunks the stream arrives in
    fed,        \* how many of them were appended to buf
    prev,       \* buf as it was when the last decode call started
    last,       \* the result of the last decode call ("None" when bytes arrived since)
    got,        \* the frame the last decode call returned
    out,        \* the frames RespFrame::decode returned so far, in order
    phase,      \* "read" | "decode" | "done" | "failed" | "probed"
    via,        \* the decoder the last call used
    sent,       \* the frames whose encodings were written to the stream
    tail        \* the bytes written after them

codecVars == <<buf, chunks, fed, prev, last, got, out, phase, via, sent, tail>>

\* Bounds of the inputs.
MaxElems == 2
MaxFrames == 2
MaxRaw == 4

SeqsUpTo(S, n) == UNION {[1..k -> S] : k \in 0..n}

Key_a == <<Ch_a>>
Key_b == <<98>>

Leaves ==
    { SimpleString(<<>>), SimpleString(Key_a), SimpleError(<<Ch_e>>),
      Integer(0), Integer(0 - 12), Integer(7),
      BulkString(<<>>), BulkString(Key_a), BulkString(CRLF), BulkString(<<0, LF>> \o BadBytes),
      RespNullBulkString, RespNullArray, RespNull, Boolean(TRUE), Boolean(FALSE),
      Double(Fin(FALSE, 15, 0 - 1)), Double(Fin(FALSE, 0, 0)), Double(Fin(TRUE, 2, 9)),
      Double(Fin(FALSE, 1, 8)), Double(Fin(TRUE, 100000001, 0)), Double(Fin(FALSE, 123456, 3)),
      Double(Fin(TRUE, 1, 0 - 8)), Double(Fin(FALSE, 99, 0 - 10)), Double(Fin(TRUE, 123456, 0 - 14)) }

\* The elements composites are built from: leaves of every framing kind and
\* empty and non-empty composites.
Elems ==
    { SimpleString(Key_a), Integer(0 - 12), BulkString(CRLF), Boolean(FALSE),
      RespArray(<<>>), RespSet(<<>>), RespMap(EmptyMap), RespArray(<<RespNull>>) }

MapsOver(K, V, n) ==
    UNION {[D -> V] : D \in {D \in SUBSET K : Cardinality(D) <= n}}

Composites ==
    {RespArray(fs) : fs \in SeqsUpTo(Elems, MaxElems)}
    \cup {RespSet(fs) : fs \in SeqsUpTo(Elems, MaxElems)}
    \cup {RespMap(m) : m \in MapsOver({Key_a, Key_b}, Elems, MaxElems)}

Frames == Leaves \cup Composites

\* The frames pipelined one after another, and the bytes that may follow.
PipeFrames ==
    { SimpleString(Key_a), BulkString(CRLF), RespNull, RespArray(<<>>), RespArray(<<BulkString(Key_a), RespArray(<<>>)>>),
      RespMap(MapInsert(EmptyMap, Key_b, RespSet(<<>>))) }
Tails == {<<>>, <<120>>, <<DOLLAR, ZERO + 1>>, <<COLON, 120, CR, LF>>}
RawBytes == {STAR, DOLLAR, ZERO, CR, LF, 120}

Variants ==
    { "SimpleString", "Error", "Integer", "BulkString", "NullBulkString", "Array",
      "NullArray", "Null", "Boolean", "Double", "Map", "Set" }

\* T::decode for each implementor of RespDecode.
DecodeBy(v, b) ==
    CASE v = "RespFrame" -> RespFrame_decode(b)
      [] v = "SimpleString" -> SimpleString_decode(b)
      [] v = "Error" -> SimpleError_decode(b)
      [] v = "Integer" -> i64_decode(b)
      [] v = "BulkString" -> BulkString_decode(b)
      [] v = "NullBulkString" -> RespNullBulkString_decode(b)
      [] v = "Array" -> RespArray_decode(b)
      [] v = "NullArray" -> RespNullArray_decode(b)
      [] v = "Null" -> RespNull_decode(b)
      [] v = "Boolean" -> bool_decode(b)
      [] v = "Double" -> f64_decode(b)
      [] v = "Map" -> RespMap_decode(b)
      [] v = "Set" -> RespSet_decode(b)

(***************************************************************************)
(* The backend store and the conversion of one request.                    *)
(***************************************************************************)
VARIABLES
    kv,         \* Backend.map: key -> frame
    hmap,       \* Backend.hmap: key -> (field -> frame)
    reply,      \* the frame the last executed command returned
    hist,       \* the commands executed so far, in order
    pre,        \* kv and hmap as they were before the last command
    req,        \* the request frame handed to Command::try_from
    conv        \* the result of the conversion (NotConverted before it)

storeVars == <<kv, hmap, reply, hist, pre>>
cmdVars == <<req, conv>>

(***************************************************************************)
(* The connections served by the pipeline (stream_handler): each has its   *)
(* socket, its buffer and its place in the read/decode/execute/write loop, *)
(* and all of them work on the one backend.                                *)
(***************************************************************************)
VARIABLES
    wire,       \* conn -> what the client sends: [reqs, tail]
    inbox,      \* conn -> the chunks still to arrive on the socket
    cbuf,       \* conn -> the connection's buffer
    cstate,     \* conn -> "READING" | "DECODING" | "EXECUTING" | "WRITING" | "CLOSED"
    cframe,     \* conn -> the frame delivered to the command layer
    wbuf,       \* conn -> the bytes of the reply still to be flushed
    sock,       \* conn -> the bytes written to the socket
    served,     \* conn -> the requests answered so far: [req, ok, reply]
    cend        \* conn -> "open" | "eof" | "fatal": how the connection ended

connVars == <<wire, inbox, cbuf, cstate, cframe, wbuf, sock, served, cend>>
vars == <<codecVars, storeVars, cmdVars, connVars>>

\* Bounds of the command sequences and of the requests.
MaxCmds == 3
MaxArgs == 3

Keys == {Key_a, Key_b}
Fields == {Key_a, Key_b}
Values == {BulkString(Key_a), Integer(7)}

None == [some |-> FALSE]
Some(v) == [some |-> TRUE, value |-> v]

\* Backend::get, set, hget, hset and hgetall on the two maps.
Backend_get(key) == IF key \in DOMAIN kv THEN Some(kv[key]) ELSE None
Backend_set(key, value) == kv' = MapInsert(kv, key, value)
Backend_hget(key, field) ==
    IF key \in DOMAIN hmap /\ field \in DOMAIN hmap[key] THEN Some(hmap[key][field]) ELSE None
Backend_hset(key, field, value) ==
    hmap' = MapInsert(hmap, key,
                      MapInsert(IF key \in DOMAIN hmap THEN hmap[key] ELSE EmptyMap, field, value))
Backend_hgetall(key) == IF key \in DOMAIN hmap THEN Some(hmap[key]) ELSE None

\* The orders a hash's entries can be iterated in: sequences of <<field, value>>.
Orders(m) ==
    {o \in [1..Cardinality(DOMAIN m) -> {<<f, m[f]>> : f \in DOMAIN m}] :
        \A i, j \in DOMAIN o : i # j => o[i] # o[j]}

\* data.sort_by(|a, b| a.0.cmp(&b.0)): insertion into a sorted prefix.
RECURSIVE SortedInsert(_, _), sort_by_key(_)
SortedInsert(sorted, e) ==
    IF sorted = <<>> THEN <<e>>
    ELSE IF BytesLess(e[1], Head(sorted)[1]) THEN <<e>> \o sorted
    ELSE <<Head(sorted)>> \o SortedInsert(Tail(sorted), e)
sort_by_key(data) ==
    IF data = <<>> THEN <<>>
    ELSE SortedInsert(sort_by_key(SubSeq(data, 1, Len(data) - 1)), data[Len(data)])

\* flat_map(|(k, v)| vec![BulkString::from(k), v])
RECURSIVE flat_map(_)
flat_map(data) ==
    IF data = <<>> THEN <<>>
    ELSE <<BulkString(Head(data)[1]), Head(data)[2]>> \o flat_map(Tail(data))

StoreInit ==
    /\ kv = EmptyMap
    /\ hmap = EmptyMap
    /\ reply = NoFrame
    /\ hist = <<>>
    /\ pre = [kv |-> EmptyMap, hmap |-> EmptyMap]

NotConverted == [pending |-> TRUE]

CmdIdle == req = NoFrame /\ conv = NotConverted

\* No connection was accepted.
ConnIdle ==
    /\ wire = EmptyMap /\ inbox = EmptyMap /\ cbuf = EmptyMap /\ cstate = EmptyMap
    /\ cframe = EmptyMap /\ wbuf = EmptyMap /\ sock = EmptyMap /\ served = EmptyMap
    /\ cend = EmptyMap

CodecIdle ==
    /\ sent = <<>> /\ tail = <<>> /\ chunks = <<>> /\ fed = 0 /\ buf = <<>> /\ prev = <<>>
    /\ last = "None" /\ got = NoFrame /\ out = <<>> /\ phase = "idle" /\ via = "None"

\* The bookkeeping of one executed command.
Executed(c) ==
    /\ Len(hist) < MaxCmds
    /\ hist' = Append(hist, c)
    /\ pre' = [kv |-> kv, hmap |-> hmap]
    /\ UNCHANGED <<codecVars, cmdVars, connVars>>

\* Get::execute never finding the key.
Get_execute_Miss(key) ==
    /\ reply' = RespNull
    /\ UNCHANGED <<kv, hmap>>

\* impl CommandExecutor for Get
Get_execute(key) ==
    /\ reply' = (IF Backend_get(key).some THEN Backend_get(key).value ELSE RespNull)
    /\ UNCHANGED <<kv, hmap>>

\* Set::execute writing into a store of its own instead of the shared one.
Set_execute_Clears(key, value) ==
    /\ kv' = MapInsert(EmptyMap, key, value)
    /\ reply' = RESP_OK
    /\ UNCHANGED hmap

\* Set::execute replying with the value the key held before.
Set_execute_RepliesOld(key, value) ==
    /\ reply' = (IF Backend_get(key).some THEN Backend_get(key).value ELSE RESP_OK)
    /\ Backend_set(key, value)
    /\ UNCHANGED hmap

\* Set::execute keeping the value a key already holds.
Set_execute_KeepsOld(key, value) ==
    /\ kv' = (IF key \in DOMAIN kv THEN kv ELSE MapInsert(kv, key, value))
    /\ reply' = RESP_OK
    /\ UNCHANGED hmap

\* impl CommandExecutor for Set
Set_execute(key, value) ==
    /\ Backend_set(key, value)
    /\ reply' = RESP_OK
    /\ UNCHANGED hmap

\* impl CommandExecutor for HGet
HGet_execute(key, field) ==
    /\ reply' = (IF Backend_hget(key, field).some THEN Backend_hget(key, field).value
                 ELSE RespNull)
    /\ UNCHANGED <<kv, hmap>>

\* HSet::execute storing a fresh hash holding the one field.
HSet_execute_Replaces(key, field, value) ==
    /\ hmap' = MapInsert(hmap, key, MapInsert(EmptyMap, field, value))
    /\ reply' = RESP_OK
    /\ UNCHANGED kv

\* impl CommandExecutor for HSet
HSet_execute(key, field, value) ==
    /\ Backend_hset(key, field, value)
    /\ reply' = RESP_OK
    /\ UNCHANGED kv

\* HGetAll::execute without the sort.
HGetAll_execute_Unsorted(key, sort) ==
    /\ IF Backend_hgetall(key).some
       THEN \E data \in Orders(Backend_hgetall(key).value) :
               reply' = RespArray(flat_map(data))
       ELSE reply' = RespArray(<<>>)
    /\ UNCHANGED <<kv, hmap>>

\* impl CommandExecutor for HGetAll: the entries in the order the map
\* iterates them, sorted by field when the flag is set.
HGetAll_execute(key, sort) ==
    /\ IF Backend_hgetall(key).some
       THEN \E data \in Orders(Backend_hgetall(key).value) :
               reply' = RespArray(flat_map(IF sort THEN sort_by_key(data) ELSE data))
       ELSE reply' = RespArray(<<>>)
    /\ UNCHANGED <<kv, hmap>>

\* impl CommandExecutor for Unrecognized
Unrecognized_execute ==
    /\ reply' = RESP_OK
    /\ UNCHANGED <<kv, hmap>>

ExecGet == \E k \in Keys : Get_execute(k) /\ Executed(Get(k))
ExecSet == \E k \in Keys, v \in Values : Set_execute(k, v) /\ Executed(Set(k, v))
ExecHGet == \E k \in Keys, f \in Fields : HGet_execute(k, f) /\ Executed(HGet(k, f))
ExecHSet ==
    \E k \in Keys, f \in Fields, v \in Values : HSet_execute(k, f, v) /\ Executed(HSet(k, f, v))
ExecHGetAll ==
    \E k \in Keys, s \in BOOLEAN : HGetAll_execute(k, s) /\ Executed(HGetAll(k, s))
ExecUnrecognized == Unrecognized_execute /\ Executed(Unrecognized)

Init == StoreInit /\ CodecIdle /\ CmdIdle /\ ConnIdle
Next == ExecGet \/ ExecSet \/ ExecHGet \/ ExecHSet \/ ExecHGetAll \/ ExecUnrecognized
Spec == Init /\ [][Next]_vars

(***************************************************************************)
(* One request array converted by Command::try_from.                       *)
(***************************************************************************)
RECURSIVE Spellings(_)
Spellings(name) ==
    IF name = <<>> THEN {<<>>}
    ELSE {<<c>> \o r : c \in {Head(name), Head(name) - 32}, r \in Spellings(Tail(name))}

KnownNames == {Name_get, Name_set, Name_hget, Name_hset, Name_hgetall}
ArgFrames == {BulkString(Key_a), BulkString(BadBytes), Integer(7)}
Heads ==
    {BulkString(n) : n \in UNION {Spellings(k) : k \in KnownNames}}
    \cup {BulkString(<<Ch_f, 111, 111>>), SimpleString(Name_get)}

Requests ==
    {RespArray(<<h>> \o args) : h \in Heads, args \in SeqsUpTo(ArgFrames, MaxArgs)}
    \cup {RespArray(<<>>), RespNull, BulkString(Name_get)}

CmdInit == req \in Requests /\ conv = NotConverted

\* let cmd: Command = frame.try_into()
Convert ==
    /\ conv = NotConverted
    /\ conv' = Command_try_from(req)
    /\ UNCHANGED <<req, codecVars, storeVars, connVars>>

InitCmd == CmdInit /\ StoreInit /\ CodecIdle /\ ConnIdle
NextCmd == Convert
SpecCmd == InitCmd /\ [][NextCmd]_vars

\* The bytes written to the stream.
Stream(fs, t) == EncodeSeq(fs) \o t

CodecStart(fs, t, split) ==
    /\ sent = fs
    /\ tail = t
    /\ chunks = <<Take(Stream(fs, t), split), Drop(Stream(fs, t), split)>>
    /\ fed = 0
    /\ buf = <<>>
    /\ prev = <<>>
    /\ last = "None"
    /\ got = NoFrame
    /\ out = <<>>
    /\ phase = "read"
    /\ via = "None"

\* A frame that begins with a byte no variant is tagged with, at top level
\* and as an element of an array, of a set, as a value of a map, nested once
\* and twice.
UnknownTag == {<<120>>, <<120, CR, LF>>}
InArray(b) == <<STAR, ZERO + 1>> \o CRLF \o b
InSet(b) == <<TILDE, ZERO + 1>> \o CRLF \o b
InMap(b) == <<PERCENT, ZERO + 1>> \o CRLF \o SimpleString_encode(Key_a) \o b
Nested(S) == {InArray(b) : b \in S} \cup {InSet(b) : b \in S} \cup {InMap(b) : b \in S}
UnknownTagBuffers == UnknownTag \cup Nested(UnknownTag) \cup Nested(Nested(UnknownTag))

\* Length-prefixed frames whose length is negative and not -1.
NegativeLengthBuffers ==
    {<<p, MINUS, ZERO + 2>> \o CRLF : p \in {DOLLAR, STAR, PERCENT, TILDE}}
    \cup {<<p, MINUS, ZERO + 5>> \o CRLF \o <<Ch_a>> \o CRLF : p \in {DOLLAR, STAR}}

\* Maps of one entry, fully buffered, whose key position holds a complete
\* frame that is not a SimpleString.
NonStringKeys == {Integer(7), BulkString(Key_a), RespNull, Boolean(TRUE), SimpleError(<<Ch_e>>)}
NonStringKeyBuffers ==
    {<<PERCENT, ZERO + 1>> \o CRLF \o RespFrame_encode(k) \o RespFrame_encode(Integer(7)) :
        k \in NonStringKeys}

\* Simple strings and simple errors whose line holds bytes that are not
\* UTF-8: a lone 0xff, and 0xff after a letter.
InvalidUtf8Texts == {BadBytes, Key_a \o BadBytes}
InvalidUtf8Buffers == {<<p>> \o t \o CRLF : p \in {PLUS, MINUS}, t \in InvalidUtf8Texts}

\* Maps as they arrive on the wire: the entries of a map written in every
\* order, each key as a SimpleString.  The first is {a: 1, b: -2}.
RECURSIVE EntriesBytes(_)
EntriesBytes(o) ==
    IF o = <<>> THEN <<>>
    ELSE SimpleString_encode(Head(o)[1]) \o RespFrame_encode(Head(o)[2]) \o EntriesBytes(Tail(o))
WireOrders(m) ==
    {<<PERCENT>> \o FmtNat(Len(o)) \o CRLF \o EntriesBytes(o) : o \in Orders(m)}
WireMaps ==
    { MapInsert(MapInsert(EmptyMap, Key_a, Integer(1)), Key_b, Integer(0 - 2)),
      MapInsert(MapInsert(EmptyMap, Key_b, BulkString(CRLF)), <<Ch_a, Ch_a>>, RespNull),
      MapInsert(MapInsert(EmptyMap, <<>>, Boolean(TRUE)), Key_a, SimpleString(Key_b)) }
MapWireBuffers == UNION {WireOrders(m) : m \in WireMaps}

\* Bulk strings, fully buffered, whose payload is followed by two bytes
\* that are not CR LF.
BadTerminators == {<<120, 121>>, <<LF, CR>>, <<CR, 120>>, <<120, LF>>}
BadTerminatorBuffers ==
    {<<DOLLAR>> \o FmtNat(Len(s)) \o CRLF \o s \o t : s \in {<<>>, Key_a, CRLF}, t \in BadTerminators}
    \cup {<<DOLLAR, ZERO + 1>> \o CRLF \o <<Ch_a, 98, 99>> \o CRLF}

\* Every buffer shorter than the shortest frame, over the tags and a few
\* bytes that tag nothing.
MinFrameLen == 3
TagBytes == {PLUS, MINUS, COLON, DOLLAR, STAR, UNDERSCORE, HASH, COMMA, PERCENT, TILDE}
ShortBuffers == SeqsUpTo(TagBytes \cup {CR, LF, ZERO, 120}, MinFrameLen - 1)

\* Bulk strings whose payload holds the bytes a line ends with, or zero
\* bytes: alone and as an element of an array, of a set and of a map, each
\* followed in the stream by another frame.
BinaryPayloads == {<<CR>>, <<LF>>, CRLF, <<0>>, <<0, CR, LF, 0>>, CRLF \o CRLF}
BinaryFrames ==
    UNION {{ BulkString(s),
             RespArray(<<BulkString(s), Integer(7)>>),
             RespSet(<<BulkString(s), BulkString(Key_a)>>),
             RespMap(MapInsert(MapInsert(EmptyMap, Key_a, BulkString(s)), Key_b, RespNull)) } :
           s \in BinaryPayloads}
BinaryPipelines ==
    {<<f, g>> : f \in BinaryFrames, g \in {SimpleString(Key_a), BulkString(<<LF>>)}}

\* The malformed buffers the decoder is handed whole.
MalformedBuffers == NonStringKeyBuffers \cup InvalidUtf8Buffers \cup BadTerminatorBuffers

CodecInit ==
    \/ \E f \in Frames : \E split \in 0..Len(RespFrame_encode(f)) :
          CodecStart(<<f>>, <<>>, split)
    \/ \E fs \in SeqsUpTo(PipeFrames, MaxFrames) : \E t \in Tails :
          \E split \in 0..Len(Stream(fs, t)) :
             fs # <<>> /\ CodecStart(fs, t, split)
    \/ \E t \in SeqsUpTo(RawBytes, MaxRaw) : CodecStart(<<>>, t, Len(t))
    \/ \E fs \in BinaryPipelines : \E split \in 0..Len(Stream(fs, <<>>)) :
          CodecStart(fs, <<>>, split)
    \/ \E t \in UnknownTagBuffers \cup NegativeLengthBuffers \cup MalformedBuffers
                \cup MapWireBuffers \cup ShortBuffers :
          CodecStart(<<>>, t, Len(t))

\* buf.extend_from_slice(chunk): the next chunk arrives.
Feed ==
    /\ phase = "read"
    /\ fed < Len(chunks)
    /\ buf' = buf \o chunks[fed + 1]
    /\ fed' = fed + 1
    /\ phase' = "decode"
    /\ last' = "None"
    /\ got' = NoFrame
    /\ via' = "None"
    /\ UNCHANGED <<chunks, prev, out, sent, tail, storeVars, cmdVars, connVars>>

\* RespFrame::decode(&mut buf), repeated until it reports NotComplete.
Decode ==
    /\ phase = "decode"
    /\ LET r == RespFrame_decode(buf)
       IN /\ prev' = buf
          /\ buf' = r.buf
          /\ last' = r.res
          /\ got' = r.frame
          /\ out' = IF r.res = "Ok" THEN Append(out, r.frame) ELSE out
          /\ phase' = CASE r.res = "Ok" -> "decode"
                        [] r.res = "NotComplete" -> IF fed = Len(chunks) THEN "done" ELSE "read"
                        [] OTHER -> "failed"
    /\ via' = "RespFrame"
    /\ UNCHANGED <<chunks, fed, sent, tail, storeVars, cmdVars, connVars>>

\* One variant's decoder called on the buffer directly, as the unit tests do.
DecodeVariant ==
    /\ phase = "decode"
    /\ out = <<>>
    /\ \E v \in Variants :
          LET r == DecodeBy(v, buf)
          IN /\ prev' = buf
             /\ buf' = r.buf
             /\ last' = r.res
             /\ got' = r.frame
             /\ via' = v
    /\ phase' = "probed"
    /\ UNCHANGED <<chunks, fed, out, sent, tail, storeVars, cmdVars, connVars>>

NextCodec == Feed \/ Decode \/ DecodeVariant

InitCodec == CodecInit /\ StoreInit /\ CmdIdle /\ ConnIdle
SpecCodec == InitCodec /\ [][NextCodec]_vars

(***************************************************************************)
(* The connection pipeline.  Each step works on one connection; steps of   *)
(* different connections interleave, and every command executes against    *)
(* the one backend.                                                        *)
(***************************************************************************)
\* The text of the SimpleError a failed request or a broken stream is
\* answered with.
ErrText == <<69, 82, 82>>
ErrorReply == SimpleError(ErrText)

\* #[enum_dispatch(CommandExecutor)] enum Command: execute of the variant.
Command_execute(cmd) ==
    \/ cmd.cmd = "Get" /\ Get_execute(cmd.key)
    \/ cmd.cmd = "Set" /\ Set_execute(cmd.key, cmd.value)
    \/ cmd.cmd = "HGet" /\ HGet_execute(cmd.key, cmd.field)
    \/ cmd.cmd = "HSet" /\ HSet_execute(cmd.key, cmd.field, cmd.value)
    \/ cmd.cmd = "HGetAll" /\ HGetAll_execute(cmd.key, cmd.sort)
    \/ cmd.cmd = "Unrecognized" /\ Unrecognized_execute

Conns == DOMAIN cstate

\* The variables of connection c change as given, the others keep theirs.
Put(f, c, v) == [f EXCEPT ![c] = v]

\* Step 1: the next chunk is read into the end of the buffer.
Read(c) ==
    /\ cstate[c] = "READING"
    /\ inbox[c] # <<>>
    /\ cbuf' = Put(cbuf, c, cbuf[c] \o Head(inbox[c]))
    /\ inbox' = Put(inbox, c, Tail(inbox[c]))
    /\ cstate' = Put(cstate, c, "DECODING")
    /\ UNCHANGED <<wire, cframe, wbuf, sock, served, cend>>
    /\ UNCHANGED <<codecVars, storeVars, cmdVars>>

\* Step 1 at the end of the stream: the peer closed the connection.
Eof(c) ==
    /\ cstate[c] = "READING"
    /\ inbox[c] = <<>>
    /\ cstate' = Put(cstate, c, "CLOSED")
    /\ cend' = Put(cend, c, "eof")
    /\ UNCHANGED <<wire, inbox, cbuf, cframe, wbuf, sock, served>>
    /\ UNCHANGED <<codecVars, storeVars, cmdVars>>

\* The frame-extraction loop taking every decode error as NotComplete.
Extract_WaitsOnError(c) ==
    /\ cstate[c] = "DECODING"
    /\ LET Deliver(r) ==
               /\ cbuf' = Put(cbuf, c, r.buf)
               /\ IF r.res = "Ok"
                  THEN /\ cframe' = Put(cframe, c, r.frame)
                       /\ cstate' = Put(cstate, c, "EXECUTING")
                  ELSE /\ cstate' = Put(cstate, c, "READING")
                       /\ UNCHANGED cframe
       IN Deliver(RespFrame_decode(cbuf[c]))
    /\ UNCHANGED <<wire, inbox, wbuf, sock, served, cend>>
    /\ UNCHANGED <<codecVars, storeVars, cmdVars>>

\* Step 2: one attempt of the frame-extraction loop.
Extract(c) ==
    /\ cstate[c] = "DECODING"
    /\ LET Deliver(r) ==
               /\ cbuf' = Put(cbuf, c, r.buf)
               /\ IF r.res = "Ok"
                  THEN /\ cframe' = Put(cframe, c, r.frame)
                       /\ cstate' = Put(cstate, c, "EXECUTING")
                       /\ UNCHANGED <<wbuf, cend>>
                  ELSE IF r.res = "NotComplete"
                  THEN /\ cstate' = Put(cstate, c, "READING")
                       /\ UNCHANGED <<cframe, wbuf, cend>>
                  ELSE /\ wbuf' = Put(wbuf, c, RespFrame_encode(ErrorReply))
                       /\ cend' = Put(cend, c, "fatal")
                       /\ cstate' = Put(cstate, c, "WRITING")
                       /\ UNCHANGED cframe
       IN Deliver(RespFrame_decode(cbuf[c]))
    /\ UNCHANGED <<wire, inbox, sock, served>>
    /\ UNCHANGED <<codecVars, storeVars, cmdVars>>


\* Steps 3 and 4: the frame is converted to a command and the command is
\* executed against the backend; a conversion error becomes the reply.
Execute(c) ==
    /\ cstate[c] = "EXECUTING"
    /\ LET result == Command_try_from(cframe[c])
       IN /\ IF result.ok
             THEN /\ Command_execute(result.command)
                  /\ hist' = Append(hist, result.command)
                  /\ pre' = [kv |-> kv, hmap |-> hmap]
             ELSE /\ reply' = ErrorReply
                  /\ UNCHANGED <<kv, hmap, hist, pre>>
          /\ served' = Put(served, c, Append(served[c],
                            [req |-> cframe[c], conv |-> result, reply |-> reply',
                             store |-> [kv |-> kv', hmap |-> hmap']]))
    /\ wbuf' = Put(wbuf, c, RespFrame_encode(reply'))
    /\ cframe' = Put(cframe, c, NoFrame)
    /\ cstate' = Put(cstate, c, "WRITING")
    /\ UNCHANGED <<wire, inbox, cbuf, sock, cend>>
    /\ UNCHANGED <<codecVars, cmdVars>>

\* Step 5: the socket takes half or all of what is left of the reply; once the reply is flushed the loop goes on, or the connection
\* closes after the reply to a broken stream.
Write(c) ==
    /\ cstate[c] = "WRITING"
    /\ \E n \in {(Len(wbuf[c]) + 1) \div 2, Len(wbuf[c])} :
          /\ sock' = Put(sock, c, sock[c] \o Take(wbuf[c], n))
          /\ wbuf' = Put(wbuf, c, Drop(wbuf[c], n))
          /\ cstate' = Put(cstate, c,
                           IF Drop(wbuf[c], n) # <<>> THEN "WRITING"
                           ELSE IF cend[c] = "fatal" THEN "CLOSED"
                           ELSE "DECODING")
    /\ UNCHANGED <<wire, inbox, cbuf, cframe, served, cend>>
    /\ UNCHANGED <<codecVars, storeVars, cmdVars>>

NextPipe ==
    \/ \E c \in Conns : Read(c)
    \/ \E c \in Conns : Eof(c)
    \/ \E c \in Conns : Extract(c)
    \/ \E c \in Conns : Execute(c)
    \/ \E c \in Conns : Write(c)

\* The chunks a stream arrives in when it is cut at split.
Chunks(bytes, split) ==
    SelectSeq(<<Take(bytes, split), Drop(bytes, split)>>, LAMBDA ch : ch # <<>>)

\* The offsets in the stream at which the requests rs end.
RequestEnds(rs) == [i \in 1..Len(rs) |-> Len(EncodeSeq(SubSeq(rs, 1, i)))]

\* The connections in o (conn -> [reqs, tail, split]) were accepted; nothing
\* was read yet.  wire keeps what each peer sends and how it is cut.
Accepted(o) ==
    /\ wire = [c \in DOMAIN o |->
                  [reqs |-> o[c].reqs, tail |-> o[c].tail, split |-> o[c].split,
                   bytes |-> Stream(o[c].reqs, o[c].tail), ends |-> RequestEnds(o[c].reqs)]]
    /\ inbox = [c \in DOMAIN o |-> Chunks(Stream(o[c].reqs, o[c].tail), o[c].split)]
    /\ cbuf = [c \in DOMAIN o |-> <<>>]
    /\ cstate = [c \in DOMAIN o |-> "READING"]
    /\ cframe = [c \in DOMAIN o |-> NoFrame]
    /\ wbuf = [c \in DOMAIN o |-> <<>>]
    /\ sock = [c \in DOMAIN o |-> <<>>]
    /\ served = [c \in DOMAIN o |-> <<>>]
    /\ cend = [c \in DOMAIN o |-> "open"]

\* Requests: the command name and its arguments as bulk strings, the value
\* of SET and HSET as it is.
Request(name, args) == RespArray(<<BulkString(name)>> \o args)
Bulk_a == BulkString(Key_a)
Bulk_b == BulkString(Key_b)

\* Bound of the number of requests in the streams built from PipeRequests.
MaxReqs == 2

\* Requests that fail command-layer validation: not an array, an empty
\* array, a head that is no BulkString, a wrong number of arguments, a key
\* that is no BulkString, a key that is not UTF-8.
FailingRequests ==
    { SimpleString(Name_get), RespArray(<<>>), RespArray(<<Integer(7)>>),
      Request(Name_get, <<>>), Request(Name_set, <<Bulk_a>>),
      Request(Name_hget, <<Bulk_a, Bulk_a, Bulk_a>>),
      Request(Name_get, <<Integer(7)>>), Request(Name_hset, <<Bulk_a, Integer(7), Bulk_a>>),
      Request(Name_get, <<BulkString(BadBytes)>>) }

\* Requests whose name is none of the five: with no argument and with two,
\* with an empty name, with a known name and a letter more.
UnknownRequests ==
    { Request(<<Ch_f, 111, 111>>, <<>>), Request(<<Ch_f, 111, 111>>, <<Bulk_a, Integer(7)>>),
      Request(<<>>, <<Bulk_a>>), Request(Name_get \o <<Ch_s>>, <<Bulk_a>>) }

\* Requests of every kind: served, unknown, failing validation, and one
\* whose encoding ends with an empty array.
AllRequests ==
    { Request(Name_set, <<Bulk_a, Bulk_a>>), Request(Name_set, <<Bulk_a, Integer(7)>>),
      Request(Name_set, <<Bulk_b, Integer(7)>>),
      Request(Name_get, <<Bulk_a>>), Request(Name_get, <<Bulk_b>>),
      Request(Name_hset, <<Bulk_a, Bulk_a, Integer(7)>>), Request(Name_hset, <<Bulk_a, Bulk_b, Bulk_a>>),
      Request(Name_hget, <<Bulk_a, Bulk_a>>), Request(Name_hgetall, <<Bulk_a>>),
      Request(Name_set, <<Bulk_a, RespArray(<<>>)>>) }
    \cup UnknownRequests \cup FailingRequests

\* The requests pipelined one after another.
PipeRequests ==
    { Request(Name_set, <<Bulk_a, Integer(7)>>), Request(Name_get, <<Bulk_a>>),
      Request(Name_hset, <<Bulk_a, Bulk_a, Integer(7)>>), Request(Name_hgetall, <<Bulk_a>>) }

\* A stream broken by a byte no frame starts with, a request after it.
BrokenTail == <<120>> \o RespFrame_encode(Request(Name_set, <<Bulk_b, Integer(7)>>))

\* What may follow the requests: nothing, a byte no frame starts with, a
\* number that does not parse, an array holding such a byte.
PipeTails ==
    { <<>>, <<120>>, BrokenTail, <<COLON, 120, CR, LF>>, <<STAR, ZERO + 1, CR, LF, 120, CR, LF>> }

Conn1 == "c1"
Conn2 == "c2"

\* A failing or unknown request between a write and a read.
Sandwiches ==
    { <<w, r, Request(Name_get, <<Bulk_a>>)>> :
        w \in { Request(Name_set, <<Bulk_a, Integer(7)>>),
                Request(Name_hset, <<Bulk_a, Bulk_a, Integer(7)>>) },
        r \in FailingRequests \cup UnknownRequests }

\* One connection whose stream is cut into two chunks at split.
Connect(rs, t, split) == Accepted(Conn1 :> [reqs |-> rs, tail |-> t, split |-> split])

InitPipe ==
    /\ \/ \E r \in AllRequests, t \in PipeTails :
             \E split \in 0..Len(Stream(<<r>>, t)) : Connect(<<r>>, t, split)
       \/ \E rs \in SeqsUpTo(PipeRequests, MaxReqs), t \in {<<>>, BrokenTail} :
             \E split \in 0..Len(Stream(rs, t)) : Connect(rs, t, split)
       \/ \E rs \in Sandwiches : \E split \in 0..Len(Stream(rs, <<>>)) : Connect(rs, <<>>, split)
    /\ StoreInit /\ CodecIdle /\ CmdIdle

SpecPipe == InitPipe /\ [][NextPipe]_vars

\* Streams that break off or not after no request or one.  The peer takes
\* what is written to it, so a write that can be made is made; it need not
\* send anything, so reading is not forced.
InitBroken ==
    /\ \E rs \in {<<>>, <<Request(Name_set, <<Bulk_a, Integer(7)>>)>>}, t \in PipeTails :
          \E split \in 0..Len(Stream(rs, t)) : Connect(rs, t, split)
    /\ StoreInit /\ CodecIdle /\ CmdIdle

FairPipe ==
    /\ InitBroken
    /\ [][NextPipe]_vars
    /\ WF_vars(Write(Conn1))

\* main: every accepted connection is handled by a task of its own holding a
\* clone of the one backend.  Two connections, each sending one or two
\* requests in one chunk: the first writes Key_a and reads Key_b, the second
\* writes Key_b and reads Key_a.
Pipelines(S) == {<<r>> : r \in S} \cup {<<r, s>> : r \in S, s \in S}

ConcRequests1 ==
    { Request(Name_set, <<Bulk_a, Bulk_a>>), Request(Name_set, <<Bulk_a, Integer(7)>>),
      Request(Name_get, <<Bulk_b>>) }
ConcRequests2 ==
    { Request(Name_set, <<Bulk_b, Bulk_b>>), Request(Name_set, <<Bulk_b, Integer(7)>>),
      Request(Name_get, <<Bulk_a>>) }

InitConc ==
    /\ \E p \in Pipelines(ConcRequests1), q \in Pipelines(ConcRequests2) :
          Accepted((Conn1 :> [reqs |-> p, tail |-> <<>>, split |-> 0])
                   @@ (Conn2 :> [reqs |-> q, tail |-> <<>>, split |-> 0]))
    /\ StoreInit /\ CodecIdle /\ CmdIdle

SpecConc == InitConc /\ [][NextPipe]_vars

(***************************************************************************)
(* Properties of the codec.                                                *)
(***************************************************************************)
IsStrictPrefix(p, b) == Len(p) < Len(b) /\ SubSeq(b, 1, Len(p)) = p

\* Decoding a whole buffer at once: RespFrame::decode until it fails.
RECURSIVE DecodeAll(_, _)
DecodeAll(b, acc) ==
    LET r == RespFrame_decode(b)
    IN IF r.res = "Ok" THEN DecodeAll(r.buf, Append(acc, r.frame))
       ELSE [res |-> r.res, frames |-> acc, buf |-> r.buf]

\* C1: a decode call (RespFrame::decode or one variant's decode) that
\* returns NotComplete leaves the buffer byte-identical.
C1_NotCompleteKeepsBuffer == last = "NotComplete" => buf = prev

C1_Witness ==
    /\ last = "NotComplete"
    /\ via = "RespFrame"
    /\ Len(prev) >= 8
    /\ Head(prev) \in {STAR, PERCENT, TILDE}
    /\ buf = prev

\* C2: RespFrame::decode on a strict prefix of a valid encoded frame
\* (the empty prefix included) returns NotComplete.
C2_StrictPrefixNotComplete ==
    (/\ via = "RespFrame"
     /\ sent # <<>>
     /\ IsStrictPrefix(prev, RespFrame_encode(sent[1])))
    => last = "NotComplete"

C2_Witness ==
    /\ via = "RespFrame"
    /\ Len(sent) = 1
    /\ sent[1].type \in {"Array", "Set", "Map"}
    /\ Len(prev) >= 6
    /\ IsStrictPrefix(prev, RespFrame_encode(sent[1]))
    /\ last = "NotComplete"

\* C3: a stream of complete frames fed in two chunks, decoding until
\* NotComplete after each, yields the frames and the residual buffer that
\* decoding the whole stream at once yields.
C3_SplitEqualsWhole ==
    (sent # <<>> /\ tail = <<>> /\ phase \in {"done", "failed"})
    => /\ phase = "done"
       /\ out = DecodeAll(Stream(sent, tail), <<>>).frames
       /\ buf = DecodeAll(Stream(sent, tail), <<>>).buf

C3_Witness ==
    /\ phase = "done"
    /\ tail = <<>>
    /\ Len(sent) = 2
    /\ Len(out) = 2
    /\ Len(chunks[1]) = Len(RespFrame_encode(sent[1])) + 3
    /\ Len(chunks[2]) > 0

\* C4: RespFrame::decode on a buffer holding exactly encode(F) returns F
\* and leaves the buffer empty, for every frame F (no NaN, no CR or LF in
\* simple texts).
C4_RoundTrip ==
    (via = "RespFrame" /\ Len(sent) = 1 /\ tail = <<>> /\ prev = RespFrame_encode(sent[1]))
    => (last = "Ok" /\ got = sent[1] /\ buf = <<>>)

\* C5: a successful RespFrame::decode removes exactly the bytes of the
\* first frame of the buffer, so pipelined frames come out in the order
\* they were written.
C5_ConsumesExactlyOneFrame ==
    (via = "RespFrame" /\ last = "Ok" /\ Len(out) <= Len(sent))
    => /\ out = SubSeq(sent, 1, Len(out))
       /\ prev = RespFrame_encode(sent[Len(out)]) \o buf

C5_Witness ==
    /\ via = "RespFrame"
    /\ last = "Ok"
    /\ Len(sent) = 2
    /\ out = sent
    /\ tail # <<>>
    /\ buf = tail

\* C6: a buffer holding exactly a zero-length frame decodes to the empty
\* value and is consumed whole.
ZeroLengthFrames ==
    { <<<<DOLLAR, ZERO, CR, LF, CR, LF>>, BulkString(<<>>)>>,
      <<<<STAR, ZERO, CR, LF>>, RespArray(<<>>)>>,
      <<<<TILDE, ZERO, CR, LF>>, RespSet(<<>>)>>,
      <<<<PERCENT, ZERO, CR, LF>>, RespMap(EmptyMap)>> }

C6_ZeroLengthDecodes ==
    \A z \in ZeroLengthFrames :
        (via = "RespFrame" /\ prev = z[1]) => (last = "Ok" /\ got = z[2] /\ buf = <<>>)

\* C19: RespFrame::decode on a buffer whose frame, or whose element at any
\* depth, begins with a byte that tags no variant reports InvalidFrameType.
C19_UnknownTagIsInvalidFrameType ==
    (via = "RespFrame" /\ prev \in UnknownTagBuffers) => last = "InvalidFrameType"

\* At top level the unknown byte is reported as InvalidFrameType.
TopLevelUnknownTagReported ==
    (via = "RespFrame" /\ prev \in UnknownTag) => last = "InvalidFrameType"

\* C20: RespFrame::decode on a length-prefixed frame whose length is
\* negative and not -1 reports InvalidFrameLength.
C20_NegativeLengthIsInvalidFrameLength ==
    (via = "RespFrame" /\ prev \in NegativeLengthBuffers) => last = "InvalidFrameLength"

\* No decode reports InvalidFrameLength; a negative length is reported as
\* the error of the number's parse.
NegativeLengthIsParseError ==
    /\ last # "InvalidFrameLength"
    /\ (via = "RespFrame" /\ prev \in NegativeLengthBuffers) => last = "ParseIntError"

\* C21: decoding a fully buffered Map whose key position holds a complete
\* frame of another tag than SimpleString fails with a parse error, not
\* with NotComplete.
C21_NonStringKeyIsParseError ==
    (via \in {"RespFrame", "Map"} /\ prev \in NonStringKeyBuffers)
    => last \notin {"Ok", "NotComplete"}

\* The key's decode does reject the frame (InvalidFrameType), and the map's
\* decode reports NotComplete in its place and leaves the buffer alone.
NonStringKeyIsNotComplete ==
    (via \in {"RespFrame", "Map"} /\ prev \in NonStringKeyBuffers)
    => /\ last = "NotComplete"
       /\ buf = prev
       /\ SimpleString_decode(Drop(prev, 2 + CRLF_LEN)).res = "InvalidFrameType"

\* The decoder of the variant a simple line is tagged with.
LineDecoder(b) == IF Head(b) = PLUS THEN "SimpleString" ELSE "Error"

\* C22: decoding a SimpleString or SimpleError whose payload is not valid
\* UTF-8 is rejected with the UTF-8 error, and no decode returns a simple
\* frame whose text differs from the bytes of the line.
C22_InvalidUtf8Rejected ==
    /\ (prev \in InvalidUtf8Buffers /\ via \in {"RespFrame", LineDecoder(prev)})
       => last = "Utf8Error"
    /\ (last = "Ok" /\ got.type \in {"SimpleString", "Error"} /\ out = <<>>
        /\ via \in {"RespFrame", "SimpleString", "Error"})
       => got.str = SubSeq(prev, 2, Len(prev) - Len(buf) - CRLF_LEN)

\* The line is accepted, every byte that starts no character comes back as
\* U+FFFD, and no decode of a simple line reports Utf8Error.
InvalidUtf8IsReplaced ==
    /\ (prev \in InvalidUtf8Buffers /\ via \in {"RespFrame", LineDecoder(prev)})
       => /\ last = "Ok"
          /\ got.type = (IF Head(prev) = PLUS THEN "SimpleString" ELSE "Error")
          /\ got.str = from_utf8_lossy(SubSeq(prev, 2, Len(prev) - CRLF_LEN))
          /\ got.str # SubSeq(prev, 2, Len(prev) - CRLF_LEN)
          /\ buf = <<>>
    /\ via \in {"SimpleString", "Error"} => last # "Utf8Error"

\* map.insert for each entry of a sequence, in the sequence's order.
RECURSIVE InsertAll(_)
InsertAll(o) ==
    IF o = <<>> THEN EmptyMap
    ELSE MapInsert(InsertAll(SubSeq(o, 1, Len(o) - 1)), o[Len(o)][1], o[Len(o)][2])

Ascending(o) == \A i \in 1..(Len(o) - 1) : BytesLess(o[i][1], o[i + 1][1])

\* b"%2\r\n+a\r\n:+1\r\n+b\r\n:-2\r\n" and the same entries the other way round.
SortedExample ==
    <<PERCENT, ZERO + 2, CR, LF, PLUS, Ch_a, CR, LF, COLON, PLUS, ZERO + 1, CR, LF,
      PLUS, 98, CR, LF, COLON, MINUS, ZERO + 2, CR, LF>>
UnsortedExample ==
    <<PERCENT, ZERO + 2, CR, LF, PLUS, 98, CR, LF, COLON, MINUS, ZERO + 2, CR, LF,
      PLUS, Ch_a, CR, LF, COLON, PLUS, ZERO + 1, CR, LF>>

\* C23: a decoded map, and the map built by inserting its entries in any
\* order, encodes as the entry count followed by the entries in ascending
\* key order, each key a SimpleString; a map read in any wire order is the
\* map of the sorted input; b"%2\r\n+a\r\n:+1\r\n+b\r\n:-2\r\n" decodes and
\* encodes back to the same bytes.
C23_MapEncodingKeyOrdered ==
    (via \in {"RespFrame", "Map"} /\ last = "Ok" /\ got.type = "Map")
    => /\ \A o \in Orders(got.map) :
             /\ RespFrame_encode(RespMap(InsertAll(o))) = RespFrame_encode(got)
             /\ Ascending(o) =>
                   RespFrame_encode(got)
                      = <<PERCENT>> \o FmtNat(Len(o)) \o CRLF \o EntriesBytes(o)
       /\ \A m \in WireMaps : prev \in WireOrders(m) => got = RespMap(m) /\ buf = <<>>
       /\ prev \in {SortedExample, UnsortedExample} => RespFrame_encode(got) = SortedExample

C23_Witness ==
    /\ via = "RespFrame"
    /\ last = "Ok"
    /\ prev = UnsortedExample
    /\ got = RespMap(MapInsert(MapInsert(EmptyMap, Key_b, Integer(0 - 2)), Key_a, Integer(1)))
    /\ RespFrame_encode(got) = SortedExample

\* Comparisons of |d| = mant * 10^exp with 10^k, on the decimal itself.
RECURSIVE Pow10(_)
Pow10(n) == IF n <= 0 THEN 1 ELSE 10 * Pow10(n - 1)
AbsAbove(d, k) ==
    IF d.exp >= k THEN d.mant >= 1 /\ (d.exp > k \/ d.mant > 1)
    ELSE k - d.exp <= 9 /\ d.mant > Pow10(k - d.exp)
AbsBelow(d, k) ==
    IF d.exp >= k THEN d.mant = 0
    ELSE k - d.exp > 9 \/ d.mant < Pow10(k - d.exp)

\* The forms of an encoded double: the tag, the sign, the digits, with an
\* exponent or without.
InExpForm(bytes) == \E i \in 1..Len(bytes) : bytes[i] = Ch_e
SignOf(bytes) == bytes[2]
CanonicalDouble(d, bytes) ==
    /\ bytes[1] = COMMA
    /\ SignOf(bytes) = (IF d.neg THEN MINUS ELSE PLUS)
    /\ InExpForm(bytes) <=> (AbsAbove(d, 8) \/ (d.mant # 0 /\ AbsBelow(d, 0 - 8)))
    /\ SubSeq(bytes, Len(bytes) - 1, Len(bytes)) = CRLF

\* The doubles whose encodings have arrived in the buffer.
DoublesSent ==
    IF fed = 0 THEN {}
    ELSE {sent[i].dbl : i \in {j \in 1..Len(sent) : sent[j].type = "Double"}}

\* C24: a double is written in exponential form exactly when |x| > 1e8 or
\* 0 < |x| < 1e-8 and in decimal form otherwise, with an explicit sign, and
\* zero is written b",+0\r\n".
C24_DoubleFormBySize ==
    \A d \in DoublesSent :
        /\ d.kind = "fin" => CanonicalDouble(d, f64_encode(d))
        /\ (d.kind = "fin" /\ d.mant = 0 /\ ~d.neg)
           => f64_encode(d) = <<COMMA, PLUS, ZERO>> \o CRLF

\* Every double but zero is written in the form its size prescribes; zero
\* is written in exponential form, b",+0e0\r\n".
NonZeroDoubleFormBySize ==
    \A d \in DoublesSent :
        /\ (d.kind = "fin" /\ d.mant # 0) => CanonicalDouble(d, f64_encode(d))
        /\ (d.kind = "fin" /\ d.mant = 0 /\ ~d.neg)
           => f64_encode(d) = <<COMMA, PLUS, ZERO, Ch_e, ZERO>> \o CRLF
        /\ Stream(sent, tail) = chunks[1] \o chunks[2]

\* The bytes the last decode call took off the buffer.
Consumed == SubSeq(prev, 1, Len(prev) - Len(buf))

\* C25: BulkString decode returns a BulkString only when the two bytes it
\* takes after the payload are CR LF, and a fully buffered bulk string
\* whose payload is followed by other bytes is a parse error.
C25_BulkStringNeedsCRLF ==
    /\ (via \in {"RespFrame", "BulkString"} /\ last = "Ok" /\ got.type = "BulkString")
       => SubSeq(Consumed, Len(Consumed) - 1, Len(Consumed)) = CRLF
    /\ (via \in {"RespFrame", "BulkString"} /\ prev \in BadTerminatorBuffers)
       => last \notin {"Ok", "NotComplete"}

\* The two bytes after the payload are taken off the buffer unread: each of
\* these buffers decodes to the BulkString of its length and payload.
BadTerminatorIsAccepted ==
    (via \in {"RespFrame", "BulkString"} /\ prev \in BadTerminatorBuffers)
    => /\ last = "Ok"
       /\ got.type = "BulkString"
       /\ \E n \in 0..2 :
             /\ SubSeq(prev, 1, 2 + CRLF_LEN) = <<DOLLAR, ZERO + n>> \o CRLF
             /\ got.str = SubSeq(prev, 3 + CRLF_LEN, 2 + CRLF_LEN + n)
             /\ Len(Consumed) = 2 + CRLF_LEN + n + CRLF_LEN
             /\ SubSeq(Consumed, Len(Consumed) - 1, Len(Consumed)) # CRLF

\* C26: RespFrame::decode on a buffer shorter than 3 bytes, whatever its
\* bytes, reports NotComplete and leaves the buffer unchanged.
C26_ShortBufferIsNotComplete ==
    (via = "RespFrame" /\ Len(prev) < MinFrameLen)
    => last = "NotComplete" /\ buf = prev

\* A short buffer is left unchanged; it is NotComplete when it is empty or
\* begins with a tag, and InvalidFrameType when its first byte tags nothing.
ShortBufferByFirstByte ==
    (via = "RespFrame" /\ Len(prev) < MinFrameLen)
    => /\ buf = prev
       /\ last = (IF prev = <<>> \/ Head(prev) \in TagBytes
                  THEN "NotComplete" ELSE "InvalidFrameType")

\* The bulk strings of a frame, at top level or as an element or value.
BulksOf(f) ==
    CASE f.type = "BulkString" -> {f}
      [] f.type \in {"Array", "Set"} ->
            {f.items[i] : i \in {j \in 1..Len(f.items) : f.items[j].type = "BulkString"}}
      [] f.type = "Map" -> {f.map[k] : k \in {j \in DOMAIN f.map : f.map[j].type = "BulkString"}}
      [] OTHER -> {}

\* C27: a bulk string whose payload holds CR, LF, CR LF or zero bytes, alone
\* or as an element of an array, a set or a map, decodes to exactly the
\* bytes its length counts, and the frame after it decodes unaffected.
C27_BulkPayloadBoundedByLength ==
    /\ (via \in {"RespFrame", "BulkString"} /\ last = "Ok" /\ got.type = "BulkString")
       => \E n \in 0..Len(prev) :
             /\ Consumed = <<DOLLAR>> \o FmtNat(n) \o CRLF \o got.str \o CRLF
                \/ prev \in BadTerminatorBuffers
             /\ Len(got.str) = n
             /\ got.str = SubSeq(prev, Len(FmtNat(n)) + 4, Len(FmtNat(n)) + 3 + n)
    /\ (sent \in BinaryPipelines /\ tail = <<>> /\ via = "RespFrame")
       => /\ out = SubSeq(sent, 1, Len(out))
          /\ last \in {"Ok", "NotComplete"}
          /\ phase = "done" => out = sent /\ buf = <<>>
          /\ (last = "NotComplete" /\ Len(out) < Len(sent))
             => ~StartsWith(buf, RespFrame_encode(sent[Len(out) + 1]))

C27_Witness ==
    /\ sent \in BinaryPipelines
    /\ phase = "done"
    /\ out = sent
    /\ sent[1].type = "Map"
    /\ BulksOf(sent[1]) = {BulkString(<<0, CR, LF, 0>>)}
    /\ sent[2] = BulkString(<<LF>>)
    /\ Len(chunks[1]) = 9

(***************************************************************************)
(* Properties of the command layer.                                        *)
(***************************************************************************)
\* The number of arguments each command takes after its name.
NArgs(name) ==
    CASE name = Name_get -> 1
      [] name = Name_set -> 2
      [] name = Name_hget -> 2
      [] name = Name_hset -> 3
      [] name = Name_hgetall -> 1

\* The variant each name stands for.
VariantOf(name) ==
    CASE name = Name_get -> "Get"
      [] name = Name_set -> "Set"
      [] name = Name_hget -> "HGet"
      [] name = Name_hset -> "HSet"
      [] name = Name_hgetall -> "HGetAll"

\* The key (and field) arguments are bulk strings of valid UTF-8.
KeyArgs(name) == IF name \in {Name_hget, Name_hset} THEN 2 ELSE 1
WellFormedRequest(items, name) ==
    /\ Len(items) = NArgs(name) + 1
    /\ IsBulk(items[1])
    /\ to_ascii_lowercase(items[1].str) = name
    /\ \A i \in 2..(KeyArgs(name) + 1) : IsBulk(items[i]) /\ IsUtf8(items[i].str)

\* C7: whatever the case of the letters of the command name, a request
\* with the right number of arguments converts to that command.
C7_CaseInsensitiveNames ==
    \A name \in KnownNames :
        (/\ conv # NotConverted
         /\ req.type = "Array"
         /\ WellFormedRequest(req.items, name))
        => (conv.ok /\ conv.command.cmd = VariantOf(name))

\* The outcome the validation of command name prescribes for the converted
\* request: success only with the right length and BulkString key and field
\* arguments, InvalidArgument for a wrong length.
ValidatedAs(name) ==
    /\ conv.ok =>
           /\ Len(req.items) = NArgs(name) + 1
           /\ \A i \in 2..(KeyArgs(name) + 1) : IsBulk(req.items[i])
           /\ conv.command.cmd = VariantOf(name)
    /\ Len(req.items) # NArgs(name) + 1 => conv = CmdErr("InvalidArgument")

\* The outcomes hold for the names spelled as Command::try_from spells them.
LowerCaseNamesValidated ==
    (conv # NotConverted /\ req.type = "Array" /\ req.items # <<>> /\ IsBulk(req.items[1])) =>
        \A name \in KnownNames : req.items[1].str = name => ValidatedAs(name)

\* C18: a request array that is empty or whose head is no BulkString
\* converts to InvalidCommand; one whose head names a known command, in
\* letters of either case, converts to that command only with 1 + arg_count
\* elements and BulkString key and field arguments, and to InvalidArgument
\* with any other number of elements.
C18_ValidationOutcomes ==
    (conv # NotConverted /\ req.type = "Array") =>
        IF req.items = <<>> \/ ~IsBulk(req.items[1]) THEN conv = CmdErr("InvalidCommand")
        ELSE \A name \in KnownNames :
                to_ascii_lowercase(req.items[1].str) = name => ValidatedAs(name)

LastCmd == hist[Len(hist)]

\* The value of the most recent SET key in h, or Null.
RECURSIVE LastSet(_, _)
LastSet(h, key) ==
    IF h = <<>> THEN RespNull
    ELSE IF h[Len(h)].cmd = "Set" /\ h[Len(h)].key = key THEN h[Len(h)].value
    ELSE LastSet(SubSeq(h, 1, Len(h) - 1), key)

\* The value of the most recent HSET key field in h, or Null.
RECURSIVE LastHSet(_, _, _)
LastHSet(h, key, field) ==
    IF h = <<>> THEN RespNull
    ELSE IF h[Len(h)].cmd = "HSet" /\ h[Len(h)].key = key /\ h[Len(h)].field = field
         THEN h[Len(h)].value
    ELSE LastHSet(SubSeq(h, 1, Len(h) - 1), key, field)

\* C8: GET k returns the value of the most recent SET k, or Null when there
\* was none, and leaves the store unchanged; SET returns OK.
C8_GetReturnsLastSet ==
    hist # <<>> =>
        /\ LastCmd.cmd = "Get" =>
               /\ reply = LastSet(hist, LastCmd.key)
               /\ kv = pre.kv
               /\ hmap = pre.hmap
        /\ LastCmd.cmd = "Set" => reply = RESP_OK

C8_Witness ==
    /\ Len(hist) = 3
    /\ hist[1].cmd = "Set" /\ hist[2].cmd = "Set" /\ hist[3].cmd = "Get"
    /\ hist[1].key = hist[3].key /\ hist[2].key = hist[3].key
    /\ hist[1].value # hist[2].value
    /\ reply = hist[2].value

\* The fields of hash key in store h (none when the hash is absent).
FieldsOf(h, key) == IF key \in DOMAIN h THEN DOMAIN h[key] ELSE {}

\* C9: HGET k f returns the value of the most recent HSET k f, or Null when
\* there was none; HSET k f v creates the hash when absent, returns OK and
\* leaves the other fields of k and the other hashes as they were.
C9_HGetReturnsLastHSet ==
    hist # <<>> =>
        /\ LastCmd.cmd = "HGet" => reply = LastHSet(hist, LastCmd.key, LastCmd.field)
        /\ LastCmd.cmd = "HSet" =>
               /\ reply = RESP_OK
               /\ DOMAIN hmap = DOMAIN pre.hmap \cup {LastCmd.key}
               /\ DOMAIN hmap[LastCmd.key] = FieldsOf(pre.hmap, LastCmd.key) \cup {LastCmd.field}
               /\ hmap[LastCmd.key][LastCmd.field] = LastCmd.value
               /\ \A f \in FieldsOf(pre.hmap, LastCmd.key) \ {LastCmd.field} :
                      hmap[LastCmd.key][f] = pre.hmap[LastCmd.key][f]
               /\ \A k \in DOMAIN pre.hmap \ {LastCmd.key} : hmap[k] = pre.hmap[k]

C9_Witness ==
    /\ Len(hist) = 3
    /\ hist[1].cmd = "HSet" /\ hist[2].cmd = "HSet" /\ hist[3].cmd = "HGet"
    /\ hist[1].key = hist[3].key /\ hist[2].key = hist[3].key
    /\ hist[1].field = hist[3].field /\ hist[2].field # hist[3].field
    /\ reply = hist[1].value

\* C10: HGETALL k returns an array of 2*n frames, each field of hash k once
\* as a BulkString followed by its value, the empty array when k has no
\* hash, and the pairs in ascending field order when the sort flag is set.
C10_HGetAllPairs ==
    (hist # <<>> /\ LastCmd.cmd = "HGetAll") =>
        /\ reply.type = "Array"
        /\ Len(reply.items) = 2 * Cardinality(FieldsOf(hmap, LastCmd.key))
        /\ \A f \in FieldsOf(hmap, LastCmd.key) :
               \E i \in 1..Cardinality(FieldsOf(hmap, LastCmd.key)) :
                   /\ reply.items[2 * i - 1] = BulkString(f)
                   /\ reply.items[2 * i] = hmap[LastCmd.key][f]
        /\ \A i, j \in 1..Cardinality(FieldsOf(hmap, LastCmd.key)) :
               i # j => reply.items[2 * i - 1] # reply.items[2 * j - 1]
        /\ LastCmd.sort =>
               \A i \in 1..(Cardinality(FieldsOf(hmap, LastCmd.key)) - 1) :
                   BytesLess(reply.items[2 * i - 1].str, reply.items[2 * i + 1].str)

C10_Witness ==
    /\ Len(hist) = 3
    /\ hist[1] = HSet(Key_a, Key_b, Integer(7))
    /\ hist[2] = HSet(Key_a, Key_a, BulkString(Key_a))
    /\ hist[3] = HGetAll(Key_a, TRUE)
    /\ reply = RespArray(<<BulkString(Key_a), BulkString(Key_a), BulkString(Key_b), Integer(7)>>)

\* C11: SET k v executed twice in a row leaves kv and hmap as they were after
\* the first execution, and so does HSET k f v; every SET and HSET replies OK.
C11_SetHSetIdempotent ==
    hist # <<>> =>
        /\ LastCmd.cmd \in {"Set", "HSet"} => reply = RESP_OK
        /\ (/\ Len(hist) >= 2
            /\ LastCmd.cmd \in {"Set", "HSet"}
            /\ hist[Len(hist) - 1] = LastCmd)
           => (kv = pre.kv /\ hmap = pre.hmap)

C11_Witness ==
    /\ Len(hist) = 3
    /\ hist[1].cmd = "Set"
    /\ hist[2].cmd = "HSet"
    /\ hist[3] = hist[2]
    /\ hmap = pre.hmap
    /\ DOMAIN kv # {}
    /\ reply = RESP_OK

(***************************************************************************)
(* Properties of the connection pipeline.                                  *)
(***************************************************************************)

\* The commands connection c sends, in the order it sends them.
IssuedCmds(c) == [i \in 1..Len(wire[c].reqs) |-> Command_try_from(wire[c].reqs[i]).command]

\* Every request of connection c was executed.
AllServed(c) == Len(served[c]) = Len(wire[c].reqs)

\* The value of the last SET key any connection sends, or Null.
FinalValue(key) ==
    LET owners == {c \in Conns : LastSet(IssuedCmds(c), key) # RespNull}
    IN IF owners = {} THEN RespNull
       ELSE LastSet(IssuedCmds(CHOOSE c \in owners : TRUE), key)

\* C12: the connections share one store; with the connections writing
\* disjoint keys, under every interleaving a SET leaves every other key as it
\* was, and once every command is executed each key holds the value of the
\* last SET its connection sent and a GET by any connection returns it.
C12_DisjointSetsIndependent ==
    /\ (hist # <<>> /\ LastCmd.cmd = "Set") =>
           \A k \in DOMAIN pre.kv \ {LastCmd.key} : k \in DOMAIN kv /\ kv[k] = pre.kv[k]
    /\ (\A c \in Conns : AllServed(c)) =>
           /\ \A k \in {Key_a, Key_b} :
                  IF FinalValue(k) = RespNull THEN k \notin DOMAIN kv
                  ELSE k \in DOMAIN kv /\ kv[k] = FinalValue(k)
           /\ (hist # <<>> /\ LastCmd.cmd = "Get") => reply = FinalValue(LastCmd.key)

C12_Witness ==
    /\ \A c \in Conns : AllServed(c)
    /\ IssuedCmds(Conn1) = <<Set(Key_a, Integer(7)), Get(Key_b)>>
    /\ IssuedCmds(Conn2) = <<Set(Key_b, BulkString(Key_b)), Set(Key_b, Integer(7))>>
    /\ LastCmd = Get(Key_b)
    /\ reply = Integer(7)
    /\ kv[Key_a] = Integer(7)
    /\ served[Conn1][1].reply = RESP_OK

\* The commands of the served requests s that converted, in order.
RECURSIVE OkCmds(_)
OkCmds(s) ==
    IF s = <<>> THEN <<>>
    ELSE OkCmds(SubSeq(s, 1, Len(s) - 1))
         \o (IF s[Len(s)].conv.ok THEN <<s[Len(s)].conv.command>> ELSE <<>>)

\* The fields HSET key wrote in h.
HSetFields(h, key) == {h[j].field : j \in {j \in 1..Len(h) : h[j].cmd = "HSet" /\ h[j].key = key}}

\* The reply r is the answer to the command cmd executed after the commands h.
AnswersCmd(h, cmd, r) ==
    IF cmd.cmd = "Get" THEN r = LastSet(h, cmd.key)
    ELSE IF cmd.cmd = "HGet" THEN r = LastHSet(h, cmd.key, cmd.field)
    ELSE IF cmd.cmd = "HGetAll"
    THEN /\ r.type = "Array"
         /\ Len(r.items) = 2 * Cardinality(HSetFields(h, cmd.key))
         /\ \A f \in HSetFields(h, cmd.key) :
                \E i \in 1..Cardinality(HSetFields(h, cmd.key)) :
                    /\ r.items[2 * i - 1] = BulkString(f)
                    /\ r.items[2 * i] = LastHSet(h, cmd.key, f)
    ELSE r = RESP_OK

\* The served entry e answers its request after the commands h.
Answers(h, e) ==
    /\ e.conv = Command_try_from(e.req)
    /\ IF e.conv.ok THEN AnswersCmd(h, e.conv.command, e.reply) ELSE e.reply.type = "Error"

\* The replies connection c produced so far, in the order it produced them.
Replies(c) ==
    [i \in 1..Len(served[c]) |-> served[c][i].reply]
    \o (IF cend[c] = "fatal" THEN <<ErrorReply>> ELSE <<>>)

\* C13: on one connection the served requests are the first requests of the
\* stream in their order, however the stream was cut into chunks; the i-th
\* reply answers the i-th request; the bytes written and the bytes still to
\* write are the replies one after another, and only the last reply can
\* have bytes still to write.
C13_RepliesInRequestOrder ==
    \A c \in Conns :
        /\ Len(served[c]) <= Len(wire[c].reqs)
        /\ \A i \in 1..Len(served[c]) :
               /\ served[c][i].req = wire[c].reqs[i]
               /\ Answers(OkCmds(SubSeq(served[c], 1, i - 1)), served[c][i])
        /\ sock[c] \o wbuf[c] = EncodeSeq(Replies(c))
        /\ wbuf[c] # <<>> =>
               /\ Replies(c) # <<>>
               /\ Len(wbuf[c]) <= Len(RespFrame_encode(Replies(c)[Len(Replies(c))]))

C13_Witness ==
    /\ wire[Conn1].reqs = <<Request(Name_set, <<Bulk_a, Integer(7)>>), Request(Name_get, <<Bulk_a>>)>>
    /\ wire[Conn1].tail = <<>>
    /\ wire[Conn1].split > Len(RespFrame_encode(wire[Conn1].reqs[1]))
    /\ wire[Conn1].split < Len(wire[Conn1].bytes)
    /\ cstate[Conn1] = "CLOSED"
    /\ Len(served[Conn1]) = 2
    /\ sock[Conn1] = RespFrame_encode(RESP_OK) \o RespFrame_encode(Integer(7))

\* The number of bytes in the chunks cs.
RECURSIVE TotalLen(_)
TotalLen(cs) == IF cs = <<>> THEN 0 ELSE Len(Head(cs)) + TotalLen(Tail(cs))

\* The number of bytes connection c has read.
Received(c) == Len(wire[c].bytes) - TotalLen(inbox[c])

\* The number of requests of connection c whose last byte was read.
WholeReqs(c) ==
    Cardinality({i \in 1..Len(wire[c].reqs) : wire[c].ends[i] <= Received(c)})

\* No request is executed before its last byte was read, and nothing is
\* written and the store is as it started while the first request is short
\* of bytes.
NoEarlyReply ==
    \A c \in Conns :
        /\ Len(served[c]) <= WholeReqs(c)
        /\ (WholeReqs(c) = 0 /\ wire[c].reqs # <<>>) =>
               sock[c] = <<>> /\ wbuf[c] = <<>> /\ kv = EmptyMap /\ hmap = EmptyMap

\* C14: no request is executed or answered before its last byte was read,
\* and the connection waits for more input only when every request whose
\* last byte was read has been executed and has its one reply written.
C14_ReplyOnceFrameComplete ==
    /\ NoEarlyReply
    /\ \A c \in Conns :
           (cstate[c] = "READING" /\ cend[c] = "open") =>
               /\ Len(served[c]) = WholeReqs(c)
               /\ sock[c] = EncodeSeq(Replies(c))

\* The frame f fails command-layer validation: it is no array, it is empty
\* or its head is no BulkString, or its head names a command and the number
\* of arguments or a key or field argument is wrong.
FailsValidation(f) ==
    \/ f.type # "Array"
    \/ f.items = <<>>
    \/ ~IsBulk(f.items[1])
    \/ \E name \in KnownNames : f.items[1].str = name /\ ~WellFormedRequest(f.items, name)

\* The store before the i-th request of connection c, the only connection.
StoreBefore(c, i) ==
    IF i = 1 THEN [kv |-> EmptyMap, hmap |-> EmptyMap] ELSE served[c][i - 1].store

\* Connection c is not in the middle of a request: it waits for input or
\* its peer closed.
AtRest(c) ==
    \/ cstate[c] = "READING" /\ cend[c] = "open"
    \/ cstate[c] = "CLOSED" /\ cend[c] = "eof"

\* The bytes connection c has read after its last served request.
Unserved(c) ==
    Drop(Take(wire[c].bytes, Received(c)),
         IF served[c] = <<>> THEN 0 ELSE wire[c].ends[Len(served[c])])

DecodeFails(c) ==
    cstate[c] = "DECODING" /\ RespFrame_decode(cbuf[c]).res \notin {"Ok", "NotComplete"}

\* Connection c is closed over a decode error, the SimpleError being the
\* last thing written to it.
ClosedOnError(c) ==
    /\ cstate[c] = "CLOSED"
    /\ cend[c] = "fatal"
    /\ wbuf[c] = <<>>
    /\ sock[c] = EncodeSeq(Replies(c))

\* C16: when the buffer fails to decode with an error other than
\* NotComplete, the step taken on it starts writing a SimpleError and marks
\* the connection broken; a broken connection goes on to be closed with the
\* SimpleError written last, never waits for input, and nothing more is
\* read, decoded or executed on it.
C16_DecodeErrorCloses ==
    /\ [][DecodeFails(Conn1) =>
             /\ cend'[Conn1] = "fatal"
             /\ wbuf'[Conn1] = RespFrame_encode(ErrorReply)]_vars
    /\ (cend[Conn1] = "fatal") ~> ClosedOnError(Conn1)
    /\ [](cend[Conn1] = "fatal" => cstate[Conn1] \in {"WRITING", "CLOSED"})
    /\ [][cend[Conn1] = "fatal" =>
             /\ cend'[Conn1] = "fatal"
             /\ UNCHANGED <<inbox, cbuf, cframe, served, kv, hmap, hist>>]_vars

C16_Witness ==
    /\ wire[Conn1].reqs = <<Request(Name_set, <<Bulk_a, Integer(7)>>)>>
    /\ wire[Conn1].tail = BrokenTail
    /\ wire[Conn1].split = wire[Conn1].ends[1] + 1
    /\ ClosedOnError(Conn1)
    /\ inbox[Conn1] # <<>>
    /\ kv = (Key_a :> Integer(7))
    /\ sock[Conn1] = RespFrame_encode(RESP_OK) \o RespFrame_encode(ErrorReply)

\* The frame f is a request array whose head is a BulkString naming none of
\* the five commands.
NamesNoCommand(f) ==
    /\ f.type = "Array"
    /\ f.items # <<>>
    /\ IsBulk(f.items[1])
    /\ to_ascii_lowercase(f.items[1].str) \notin KnownNames

\* C17: a request whose head names none of the five commands converts to
\* Unrecognized whatever the number of its arguments; executing it replies
\* OK and leaves kv and hmap as they were.
C17_UnknownNameIsUnrecognized ==
    \A c \in Conns : \A i \in 1..Len(served[c]) :
        NamesNoCommand(served[c][i].req) =>
            /\ served[c][i].conv = CmdOk(Unrecognized)
            /\ served[c][i].reply = RESP_OK
            /\ served[c][i].store = StoreBefore(c, i)

C17_Witness ==
    /\ wire[Conn1].reqs = <<Request(Name_hset, <<Bulk_a, Bulk_a, Integer(7)>>),
                            Request(<<Ch_f, 111, 111>>, <<Bulk_a, Integer(7)>>),
                            Request(Name_get, <<Bulk_a>>)>>
    /\ Len(served[Conn1]) = 3
    /\ served[Conn1][2].conv = CmdOk(Unrecognized)
    /\ served[Conn1][2].reply = RESP_OK
    /\ kv = EmptyMap
    /\ hmap = (Key_a :> (Key_a :> Integer(7)))

====
